---- MODULE Spec2Model ----
(***************************************************************************)
(* Model of the concurrent playlist-download engine of pytube_helper.py:   *)
(* download_playlist, its worker function _download_one, the enumeration   *)
(* in _extract_playlist_urls and the resolution in get_video_streams.      *)
(*                                                                         *)
(* Items are numbered 1..Len(video_urls); the source numbers them from 0   *)
(* (enumerate), the model from 1 (TLA+ sequences).  Durations are in       *)
(* tenths of a second, so that backoff_factor = 1.5 is the integer 15.     *)
(* An exception message is modelled as "<raise site>@<attempt>", which     *)
(* identifies the failure that produced it.                                *)
(*                                                                         *)
(* The specifications: Spec (a playlist run through the pool), SpecItem    *)
(* (the same run on at most one video, with the MP3 conversion),           *)
(* SpecObserver (the run with a callback that raises), SpecLive (the run   *)
(* under fair scheduling), SpecResolve (one get_video_streams call),       *)
(* SpecStore (the calls of progress_store.py on one progress file, at the  *)
(* level of file names and file contents), SpecUrl (_normalize_video_url   *)
(* on URLs given as token sequences), SpecName (_safe_filename and the     *)
(* destination files of two playlist items), SpecTrack (the                *)
(* progress-record ids in use in one destination directory), SpecMeter     *)
(* (speed and ETA of one video item against the clock), SpecSingle (one    *)
(* download_fallback call) and SpecJob (one background download of the     *)
(* app with its progress record).                                          *)
(***************************************************************************)
EXTENDS Integers, Sequences, FiniteSets, TLC

\* ---------------------------------------------------------------- bounds
MaxItems == 2          \* longest playlist enumerated
MaxConcurrency == 2    \* largest concurrency argument
MaxRetriesArg == 2     \* largest max_retries argument
MaxRetriesItem == 3    \* largest max_retries argument of a run on one video
MaxChunks == 1         \* progress reports of one transfer
MaxWriters == 2        \* write_progress_file calls in flight on one path
MaxIdLen == 1          \* pieces of an id in a URL
MaxTitleLen == 2       \* characters of a title
MaxRuns == 2           \* playlist runs into one destination directory
MaxBackground == 1     \* background single downloads into that directory
MaxTicks == 3          \* advances of the clock during one item
MaxBytes == 2          \* size of a stream in bytes
MaxHooks == 3          \* progress events of one yt-dlp transfer

\* ------------------------------------------------------- program constants
DEFAULT_MAX_RETRIES == 2
DEFAULT_BACKOFF_FACTOR == 15

None == "None"

\* progress_file_for_id(output_folder, uid)
Path == "uid.json"

\* faulty variant: the record is written into the file itself
TmpOf_InPlace(path) == path

\* `tmp = path + '.tmp'`
TmpOf(path) == path \o ".tmp"

FileNames == {Path, Path \o ".tmp"}

VARIABLES
    \* arguments of download_playlist, module globals and the number of videos
    \* of the playlist behind playlist_url, fixed for one run
    concurrency, max_retries, backoff_factor, audio_only, resolution_preference,
    per_item_callback, progress_dir, YTDLP_AVAILABLE, playlist,
    convert_mp3, PYDUB_AVAILABLE,
    \* whether the function given as per_item_callback raises when invoked
    callback_raises,
    \* the calling thread (entries: what yt-dlp's flat extraction returned)
    mainPc, entries, video_urls, futures, downloaded,
    \* one _download_one call per item
    pc, attempts, tries, sleeps, streams, stream, chunks, last_received, result,
    \* what left the pipeline, per item: callback invocations, progress record
    obs,
    \* as_completed: the futures that were done when it started and are not
    \* yet yielded, and all done futures not yet yielded in the order in
    \* which they finished
    finished, completed,
    \* one get_video_streams call looked at on its own
    call,
    \* one progress file looked at on its own: the directory entries of the
    \* path and its temporary, the files behind them, the write_progress_file
    \* calls and the read_progress_file calls on the path
    initial, names, disk, writer, reader, seen,
    \* what the last list_progress_files call on the directory of that file
    \* returned, with the directory entries it ran on
    listed,
    \* one _normalize_video_url input looked at on its own and what the
    \* function returned for it and then for its own results
    raw_url, norm,
    \* two playlist items looked at on their own: their titles, the file
    \* names derived from them, those names sanitized once more, and where
    \* the download of each stands
    titles, filenames, renamed, writing,
    \* the downloads that write progress records into one destination
    \* directory, and the number of uuid4() calls so far
    tracked, uuids,
    \* the speed and ETA of one video item looked at on their own: the clock,
    \* the attempts of the item and what video_cb last reported
    meter,
    \* one download_fallback call looked at on its own
    single,
    \* one background download of the app looked at on its own, with the
    \* record it writes
    job

args == <<concurrency, max_retries, backoff_factor, audio_only,
          resolution_preference, per_item_callback, progress_dir, YTDLP_AVAILABLE,
          playlist, convert_mp3, PYDUB_AVAILABLE, callback_raises>>
mainVars == <<mainPc, entries, video_urls, futures, downloaded>>
itemVars == <<pc, attempts, tries, sleeps, streams, stream, chunks, last_received,
             result>>
waitVars == <<finished, completed>>
runVars == <<args, mainVars, itemVars, obs, waitVars>>
storeVars == <<initial, names, disk, writer, reader, seen, listed>>
\* what a playlist run leaves alone
urlVars == <<raw_url, norm>>
nameVars == <<titles, filenames, renamed, writing>>
trackVars == <<tracked, uuids>>
soloVars == <<meter, single, job>>
pureVars == <<urlVars, nameVars, trackVars, soloVars>>
others == <<call, storeVars, pureVars>>
vars == <<runVars, others>>

Slots == 1..MaxItems
Items == 1..Len(video_urls)

\* ------------------------------------------------------------ pure helpers
RECURSIVE Pow2(_)
Pow2(n) == IF n <= 0 THEN 1 ELSE 2 * Pow2(n - 1)

UrlOf(i) == "url_" \o ToString(i)
TitleOf(i) == "title_" \o ToString(i)
PathOf(i) == "file_" \o ToString(i)

\* str(e) of the exception raised at `site` during attempt number k
Msg(site, k) == site \o "@" \o ToString(k)

\* ------------------------------------------------- resolution (backends)
\* candidate lists as the primary backend returns them, sorted best first
p720 == [itag |-> 22, resolution |-> "720p"]
p360 == [itag |-> 18, resolution |-> "360p"]
a1080 == [itag |-> 137, resolution |-> "1080p"]
a720 == [itag |-> 136, resolution |-> "720p"]
au160 == [itag |-> 251, resolution |-> "160kbps"]
au128 == [itag |-> 140, resolution |-> "128kbps"]
NoStream == [itag |-> 0, resolution |-> None]
NoStreams == [backend |-> None]

ProgressiveLists == {<<>>, <<p720, p360>>}
AdaptiveLists == {<<>>, <<a1080, a720>>}
AudioLists == {<<>>, <<au160, au128>>}
Preferences == {None, "1080p"}

\* what the primary backend (pytube) does for one get_video_streams call
FailedOutcome ==
    [ok |-> FALSE, progressive |-> <<>>, adaptive_video |-> <<>>, audio |-> <<>>]

PrimaryOutcomes ==
    {FailedOutcome}
    \cup [ok : {TRUE}, progressive : ProgressiveLists,
          adaptive_video : AdaptiveLists, audio : AudioLists]

\* _get_video_streams_with_ytdlp, called with the error of pytube: raises
\* without asking yt-dlp when it is missing, raises when yt-dlp fails, else
\* returns a dict with the keys backend, title and yt_dlp_info only.
\* `tried` lists the backends that were asked, in order.
ytdlp_streams(i, fallbackOk) ==
    IF ~YTDLP_AVAILABLE
    THEN [raised |-> TRUE, tried |-> <<"pytube">>]
    ELSE IF ~fallbackOk
    THEN [raised |-> TRUE, tried |-> <<"pytube", "yt-dlp">>]
    ELSE [raised |-> FALSE, tried |-> <<"pytube", "yt-dlp">>,
          dict |-> [backend |-> "yt-dlp", title |-> TitleOf(i), yt_dlp_info |-> UrlOf(i)]]

\* faulty variant: the result of the fallback goes out under the tag of the
\* primary backend
get_video_streams_Untagged(i, primary, fallbackOk) ==
    IF primary.ok
    THEN [raised |-> FALSE, tried |-> <<"pytube">>,
          dict |-> [backend |-> "pytube", title |-> TitleOf(i),
                    progressive |-> primary.progressive,
                    adaptive_video |-> primary.adaptive_video,
                    audio |-> primary.audio]]
    ELSE IF ytdlp_streams(i, fallbackOk).raised THEN ytdlp_streams(i, fallbackOk)
    ELSE [raised |-> FALSE, tried |-> <<"pytube", "yt-dlp">>,
          dict |-> [backend |-> "pytube", title |-> TitleOf(i),
                    yt_dlp_info |-> UrlOf(i)]]

\* get_video_streams: primary first, fallback only when the primary raised
get_video_streams(i, primary, fallbackOk) ==
    IF primary.ok
    THEN [raised |-> FALSE, tried |-> <<"pytube">>,
          dict |-> [backend |-> "pytube", title |-> TitleOf(i),
                    progressive |-> primary.progressive,
                    adaptive_video |-> primary.adaptive_video,
                    audio |-> primary.audio]]
    ELSE ytdlp_streams(i, fallbackOk)

\* first stream of the list with the preferred resolution, NoStream if none
RECURSIVE FirstMatch(_, _)
FirstMatch(list, pref) ==
    IF list = <<>> THEN NoStream
    ELSE IF Head(list).resolution = pref THEN Head(list)
    ELSE FirstMatch(Tail(list), pref)

\* the "pick stream" block of _download_one (video), d has the lists
PickStream(d) ==
    LET preferred == IF resolution_preference # None
                     THEN FirstMatch(d.progressive \o d.adaptive_video,
                                     resolution_preference)
                     ELSE NoStream
    IN IF preferred # NoStream THEN preferred
       ELSE IF d.progressive # <<>> THEN d.progressive[1]
       ELSE IF d.adaptive_video # <<>> THEN d.adaptive_video[1]
       ELSE NoStream

\* ------------------------------------------------------------- observers
\* obs[i].cbs: the (status, number of arguments) pairs per_item_callback was
\* invoked with for item i; obs[i].rec: the record last written for
\* playlist_<i>; obs[i].late: what was invoked or written for item i after a
\* terminal status had already been delivered or written
NoRecord == [status |-> "absent"]

\* obs[i].transcode: whether the MP3 conversion ran for item i, what
\* is_ffmpeg_available() said if it was asked, and whether the conversion
\* failed; obs[i].regress: the statuses of the invocations whose 'received'
\* argument was below that of the invocation before it in the same attempt
NoTranscode == [ran |-> FALSE, ffmpeg |-> FALSE, failed |-> FALSE]
NoObs == [cbs |-> {}, rec |-> NoRecord, late |-> {}, transcode |-> NoTranscode,
          regress |-> {}]

IsTerminalStatus(status) == status \notin {"queued", "downloading", "absent"}

TerminalDelivered(o) ==
    \/ \E c \in o.cbs : IsTerminalStatus(c[1])
    \/ IsTerminalStatus(o.rec.status)

\* per_item_callback(title, status, url, index, ...) with nargs arguments,
\* inside try/except: nothing happens when no callback was given
Callback(o, status, nargs) ==
    IF ~per_item_callback THEN o
    ELSE [o EXCEPT !.cbs = @ \cup {<<status, nargs>>},
                   !.late = @ \cup (IF TerminalDelivered(o)
                                    THEN {<<"callback", status>>} ELSE {})]

\* faulty variant: per_item_callback is invoked outside any try statement
CallbackEscapes_Unguarded == per_item_callback /\ callback_raises

\* whether an exception of per_item_callback leaves the statement that
\* invokes it: every invocation is `try: per_item_callback(...)` followed by
\* `except Exception: pass`
CallbackEscapes == FALSE

\* an invocation with all 8 arguments, `received` being the fifth and
\* `previous` the fifth of the invocation before it in the same attempt
Deliver(o, status, received, previous) ==
    LET o2 == Callback(o, status, 8)
    IN IF per_item_callback /\ received < previous
       THEN [o2 EXCEPT !.regress = @ \cup {status}]
       ELSE o2

\* faulty variant: the record is written whether progress_dir was given or not
WriteProgress_Always(o, record) ==
    [o EXCEPT !.rec = record,
              !.late = @ \cup (IF TerminalDelivered(o)
                               THEN {<<"write", record.status>>} ELSE {})]

\* write_progress_file(progress_file_for_id(output_path, playlist_<i>), record)
\* under `if progress_dir:`
WriteProgress(o, record) ==
    IF ~progress_dir THEN o
    ELSE [o EXCEPT !.rec = record,
                   !.late = @ \cup (IF TerminalDelivered(o)
                                    THEN {<<"write", record.status>>} ELSE {})]

\* ------------------------------------------------------------------ Init
NoResult == [out |-> None, title |-> None, status |-> None, exc |-> FALSE]

\* the arguments of one download_playlist call, the module globals and the
\* playlist behind the URL; backoff_factor has its default, convert_mp3 and
\* PYDUB_AVAILABLE are drawn from the same set; observers: whether the
\* callback raises
ArgsFrom(playlists, conversions, retries, observers) ==
    /\ callback_raises \in observers
    /\ concurrency \in 1..MaxConcurrency
    /\ max_retries \in 0..retries
    /\ backoff_factor = DEFAULT_BACKOFF_FACTOR
    /\ audio_only \in BOOLEAN
    /\ resolution_preference \in Preferences
    /\ per_item_callback \in BOOLEAN
    /\ progress_dir \in BOOLEAN
    /\ YTDLP_AVAILABLE \in BOOLEAN
    /\ convert_mp3 \in conversions
    /\ PYDUB_AVAILABLE \in conversions
    /\ playlist \in playlists

\* the same with a callback that returns normally
ArgsInit(playlists, conversions, retries) ==
    ArgsFrom(playlists, conversions, retries, {FALSE})

\* download_playlist was entered and nothing has happened yet
RunInit ==
    /\ mainPc = "enumerate"
    /\ entries = <<>>
    /\ video_urls = <<>>
    /\ futures = 0
    /\ downloaded = <<>>
    /\ pc = [i \in Slots |-> "unsubmitted"]
    /\ attempts = [i \in Slots |-> 0]
    /\ tries = [i \in Slots |-> 0]
    /\ sleeps = [i \in Slots |-> <<>>]
    /\ streams = [i \in Slots |-> NoStreams]
    /\ stream = [i \in Slots |-> NoStream]
    /\ chunks = [i \in Slots |-> 0]
    /\ last_received = [i \in Slots |-> 0]
    /\ result = [i \in Slots |-> NoResult]
    /\ obs = [i \in Slots |-> NoObs]
    /\ finished = {}
    /\ completed = <<>>

\* no get_video_streams call is looked at on its own
NoCall == [phase |-> "none", item |-> 0, primary |-> FailedOutcome,
           fallbackOk |-> FALSE, ret |-> [raised |-> FALSE]]

\* the progress file looked at on its own does not exist and nobody uses it
Writers == 1..MaxWriters
Inodes == 1..(MaxWriters + 1)
NoWriter == [pc |-> "idle", data |-> <<>>, fd |-> 0, pos |-> 0, raised |-> None,
             left |-> FALSE]
NoReader == [pc |-> "idle", fd |-> 0]
StoreIdle ==
    /\ initial = <<>>
    /\ names = [n \in FileNames |-> 0]
    /\ disk = [k \in Inodes |-> <<>>]
    /\ writer = [w \in Writers |-> NoWriter]
    /\ reader = NoReader
    /\ seen = {}
    /\ listed = <<>>

\* two items, 1 and 2, stand for any two items of a playlist
Pair == {1, 2}

\* no URL, no title and no progress record id is looked at on its own
\* (filenames[i] and renamed[i] are <<>> until the name was derived, then the
\* one-element sequence of the name)
UrlIdle == raw_url = <<>> /\ norm = <<>>
NameIdle ==
    /\ titles = [i \in Pair |-> <<>>]
    /\ filenames = [i \in Pair |-> <<>>]
    /\ renamed = [i \in Pair |-> <<>>]
    /\ writing = [i \in Pair |-> FALSE]
TrackIdle == tracked = {} /\ uuids = 0

\* no video_cb, no download_fallback call and no background download is looked
\* at on its own
NoMeter == [pc |-> "none"]
NoSingle == [pc |-> "none"]
NoJob == [pc |-> "none"]
SoloIdle == meter = NoMeter /\ single = NoSingle /\ job = NoJob

\* a playlist run with conversion off (the default of convert_mp3)
Init ==
    /\ ArgsInit(0..MaxItems, {FALSE}, MaxRetriesArg)
    /\ RunInit
    /\ call = NoCall
    /\ StoreIdle
    /\ UrlIdle /\ NameIdle /\ TrackIdle /\ SoloIdle

\* ----------------------------------------------------------- enumeration
UrlList(n) == [k \in 1..n |-> UrlOf(k)]

\* the entries yt-dlp's flat extraction can return for video k: something that
\* is not a dict, a dict without a URL, one with webpage_url, one with url only
EntriesOf(k) ==
    {[dict |-> FALSE, webpage_url |-> None, url |-> None],
     [dict |-> TRUE, webpage_url |-> None, url |-> None],
     [dict |-> TRUE, webpage_url |-> UrlOf(k), url |-> None],
     [dict |-> TRUE, webpage_url |-> None, url |-> UrlOf(k)]}

\* info.get('entries', []) for a playlist of n videos
FlatEntries(n) ==
    {es \in [1..n -> UNION {EntriesOf(k) : k \in 1..n}] :
        \A k \in 1..n : es[k] \in EntriesOf(k)}

\* faulty variant: the URLs are collected in reverse order
RECURSIVE extract_playlist_urls_with_ytdlp_Reversed(_)
extract_playlist_urls_with_ytdlp_Reversed(es) ==
    IF es = <<>> THEN <<>>
    ELSE LET entry == Head(es)
             url == IF entry.webpage_url # None THEN entry.webpage_url ELSE entry.url
         IN IF entry.dict /\ url # None
            THEN extract_playlist_urls_with_ytdlp_Reversed(Tail(es)) \o <<url>>
            ELSE extract_playlist_urls_with_ytdlp_Reversed(Tail(es))

\* the loop of _extract_playlist_urls_with_ytdlp: `webpage_url or url` of
\* every dict entry that has one, in the order of the entries
RECURSIVE extract_playlist_urls_with_ytdlp(_)
extract_playlist_urls_with_ytdlp(es) ==
    IF es = <<>> THEN <<>>
    ELSE LET entry == Head(es)
             url == IF entry.webpage_url # None THEN entry.webpage_url ELSE entry.url
         IN IF entry.dict /\ url # None
            THEN <<url>> \o extract_playlist_urls_with_ytdlp(Tail(es))
            ELSE extract_playlist_urls_with_ytdlp(Tail(es))

\* faulty variant: an empty list is returned like any other
AfterExtract_NoCheck(urls) ==
    mainPc' = "submit" /\ video_urls' = urls

\* the tail of _extract_playlist_urls: an empty list raises
AfterExtract(urls) ==
    IF urls = <<>>
    THEN mainPc' = "raised" /\ UNCHANGED video_urls
    ELSE mainPc' = "submit" /\ video_urls' = urls

\* Playlist(playlist_url).video_urls returns the list or raises; when it
\* raised the fallback is tried if yt-dlp is installed, else RuntimeError
ExtractPrimary ==
    /\ mainPc = "enumerate"
    /\ \E ok \in BOOLEAN :
          IF ok THEN AfterExtract(UrlList(playlist))
          ELSE IF ~YTDLP_AVAILABLE
               THEN mainPc' = "raised" /\ UNCHANGED video_urls
               ELSE mainPc' = "enumerate_ytdlp" /\ UNCHANGED video_urls
    /\ UNCHANGED <<others, args, entries, futures, downloaded, itemVars, obs, waitVars>>

\* ydl.extract_info(playlist_url, download=False) in
\* _extract_playlist_urls_with_ytdlp, reached only from the except branch:
\* it raises (RuntimeError for the caller) or returns the flat entries
ExtractFallback ==
    /\ mainPc = "enumerate_ytdlp"
    /\ \E ok \in BOOLEAN :
          IF ok
          THEN /\ \E es \in FlatEntries(playlist) : entries' = es
               /\ mainPc' = "enumerate_entries"
          ELSE mainPc' = "raised" /\ UNCHANGED entries
    /\ UNCHANGED <<others, args, video_urls, futures, downloaded, itemVars, obs, waitVars>>

\* the loop over the entries and the return of _extract_playlist_urls
ExtractEntries ==
    /\ mainPc = "enumerate_entries"
    /\ AfterExtract(extract_playlist_urls_with_ytdlp(entries))
    /\ entries' = <<>>
    /\ UNCHANGED <<others, args, futures, downloaded, itemVars, obs, waitVars>>

\* ------------------------------------------------------------ the pool
\* items whose _download_one call occupies a worker thread
Running ==
    {i \in Slots : pc[i] \in {"resolve", "select", "fetch", "fetch_ytdlp", "sleep"}}

\* faulty variant: the pool keeps one of its max_workers threads back
WorkerFree_Strict == Cardinality(Running) + 1 < concurrency

\* faulty variant: the pool admits one call more than max_workers
WorkerFree_OffByOne == Cardinality(Running) <= concurrency

\* ThreadPoolExecutor(max_workers=concurrency): a worker is free
WorkerFree == Cardinality(Running) < concurrency

\* ex.submit(_download_one, video_url, i), one loop iteration
Submit ==
    /\ mainPc = "submit"
    /\ futures < Len(video_urls)
    /\ futures' = futures + 1
    /\ pc' = [pc EXCEPT ![futures + 1] = "queued"]
    /\ UNCHANGED <<others, args, mainPc, entries, video_urls, downloaded, attempts, tries, sleeps,
                   streams, stream, chunks, last_received, result, obs, waitVars>>

\* the submission loop is over and as_completed starts: it sets apart the
\* futures that are done already
SubmitDone ==
    /\ mainPc = "submit"
    /\ futures = Len(video_urls)
    /\ mainPc' = "collect"
    /\ finished' = {i \in Items : pc[i] = "done"}
    /\ UNCHANGED <<others, args, entries, video_urls, futures, downloaded, itemVars, obs,
                   completed>>

\* faulty variant: the loop condition is strict
LoopCond_Strict(a) == a < max_retries

\* `while attempts <= max_retries`
LoopCond(a) == a <= max_retries

\* `if attempts > max_retries` in the except handler
Exhausted(a) == a > max_retries

\* faulty variant: a constant delay
sleep_time_Constant(a) == backoff_factor

\* faulty variant: the delay grows by backoff_factor with every failure
sleep_time_Linear(a) == backoff_factor * a

\* `sleep_time = backoff_factor * (2 ** (attempts - 1))`
sleep_time(a) == backoff_factor * Pow2(a - 1)

\* f'error:{e}'
ErrorStatus(e) == "error:" \o e

\* faulty variant: the handler re-raises after the last attempt
ExhaustedResult_Raise(i, e) ==
    [out |-> None, title |-> video_urls[i], status |-> ErrorStatus(e), exc |-> TRUE]

\* `return None, video_url, f'error:{e}'`: the failure is returned, and
\* exc is the exception slot of the future, set when the call raised instead
ExhaustedResult(i, e) ==
    [out |-> None, title |-> video_urls[i], status |-> ErrorStatus(e), exc |-> FALSE]

\* falling out of the while loop returns None, which the caller cannot unpack
FellThrough == [out |-> None, title |-> None, status |-> None, exc |-> TRUE]

SkipResult(i, status) ==
    [out |-> None, title |-> TitleOf(i), status |-> status, exc |-> FALSE]

OkResult(i) ==
    [out |-> PathOf(i), title |-> TitleOf(i), status |-> "ok", exc |-> FALSE]

\* the future of item i is set to finished when its call has returned or
\* raised in this step
Notify(i) ==
    /\ completed' = IF pc'[i] = "done" /\ pc[i] # "done"
                    THEN Append(completed, i) ELSE completed
    /\ UNCHANGED finished

\* a worker thread takes the oldest queued work item and enters the loop
Start(i) ==
    /\ pc[i] = "queued"
    /\ \A j \in Slots : pc[j] = "queued" => i <= j
    /\ WorkerFree
    /\ IF LoopCond(attempts[i])
       THEN /\ pc' = [pc EXCEPT ![i] = "resolve"]
            /\ tries' = [tries EXCEPT ![i] = 1]
            /\ UNCHANGED result
       ELSE /\ pc' = [pc EXCEPT ![i] = "done"]
            /\ result' = [result EXCEPT ![i] = FellThrough]
            /\ UNCHANGED tries
    /\ UNCHANGED <<others, args, mainVars, attempts, sleeps, streams, stream, chunks,
                   last_received, obs>>
    /\ Notify(i)

\* the locals of one attempt (stream, the byte counters) leave scope
EndAttempt(i) ==
    /\ streams' = [streams EXCEPT ![i] = NoStreams]
    /\ stream' = [stream EXCEPT ![i] = NoStream]
    /\ chunks' = [chunks EXCEPT ![i] = 0]
    /\ last_received' = [last_received EXCEPT ![i] = 0]

\* faulty variant: the handler keeps the exception of the first attempt
Caught_First(i, site) == Msg(site, 1)

\* the exception bound by `except Exception as e`: the one raised at `site`
\* during the current attempt
Caught(i, site) == Msg(site, tries[i])

\* `except Exception as e:` of _download_one
Except(i, site) ==
    LET a == attempts[i] + 1
        e == Caught(i, site)
    IN /\ attempts' = [attempts EXCEPT ![i] = a]
       /\ EndAttempt(i)
       /\ IF Exhausted(a)
          THEN /\ result' = [result EXCEPT ![i] = ExhaustedResult(i, e)]
               /\ pc' = [pc EXCEPT ![i] = "done"]
               /\ UNCHANGED sleeps
          ELSE /\ sleeps' = [sleeps EXCEPT ![i] = Append(@, sleep_time(a))]
               /\ pc' = [pc EXCEPT ![i] = "sleep"]
               /\ UNCHANGED result

\* time.sleep returns and the loop starts the next attempt
Wake(i) ==
    /\ pc[i] = "sleep"
    /\ IF LoopCond(attempts[i])
       THEN /\ pc' = [pc EXCEPT ![i] = "resolve"]
            /\ tries' = [tries EXCEPT ![i] = @ + 1]
            /\ UNCHANGED result
       ELSE /\ pc' = [pc EXCEPT ![i] = "done"]
            /\ result' = [result EXCEPT ![i] = FellThrough]
            /\ UNCHANGED tries
    /\ UNCHANGED <<others, args, mainVars, attempts, sleeps, streams, stream, chunks,
                   last_received, obs>>
    /\ Notify(i)

\* a `return` of _download_one that is not in the except handler
Return(i, r) ==
    /\ result' = [result EXCEPT ![i] = r]
    /\ pc' = [pc EXCEPT ![i] = "done"]
    /\ EndAttempt(i)
    /\ UNCHANGED <<attempts, sleeps>>

\* the transfer of stream s starts (download_audio / download_video is called)
BeginFetch(i, s) ==
    /\ pc' = [pc EXCEPT ![i] = "fetch"]
    /\ streams' = [streams EXCEPT ![i] = NoStreams]
    /\ stream' = [stream EXCEPT ![i] = s]
    /\ chunks' = [chunks EXCEPT ![i] = 0]
    /\ last_received' = [last_received EXCEPT ![i] = 0]
    /\ UNCHANGED <<attempts, sleeps, result>>

\* `streams = get_video_streams(video_url)` returns or raises
Resolve(i) ==
    /\ pc[i] = "resolve"
    /\ \E primary \in PrimaryOutcomes, fallbackOk \in BOOLEAN :
          LET r == get_video_streams(i, primary, fallbackOk)
          IN IF r.raised
             THEN Except(i, "RuntimeError")
             ELSE /\ streams' = [streams EXCEPT ![i] = r.dict]
                  /\ pc' = [pc EXCEPT ![i] = "select"]
                  /\ UNCHANGED <<attempts, sleeps, stream, chunks, last_received,
                                 result>>
    /\ UNCHANGED <<others, args, mainVars, tries, obs>>
    /\ Notify(i)

\* faulty variant: the empty list is indexed (IndexError) and a missing stream is
\* used, so the item fails instead of being skipped
Selection_NoSkip(d) ==
    IF audio_only
    THEN IF "audio" \notin DOMAIN d THEN [kind |-> "raise", site |-> "KeyError"]
         ELSE IF d.audio = <<>> THEN [kind |-> "raise", site |-> "IndexError"]
         ELSE [kind |-> "fetch", stream |-> d.audio[1]]
    ELSE IF "progressive" \notin DOMAIN d THEN [kind |-> "raise", site |-> "KeyError"]
         ELSE IF PickStream(d) = NoStream THEN [kind |-> "raise", site |-> "AttributeError"]
         ELSE [kind |-> "fetch", stream |-> PickStream(d)]

\* what the code between get_video_streams and the download call decides:
\* a KeyError on a dict without the lists, a skip status, or a stream
Selection(d) ==
    IF audio_only
    THEN IF "audio" \notin DOMAIN d THEN [kind |-> "raise", site |-> "KeyError"]
         ELSE IF d.audio = <<>> THEN [kind |-> "return", status |-> "no-audio"]
         ELSE [kind |-> "fetch", stream |-> d.audio[1]]
    ELSE IF "progressive" \notin DOMAIN d THEN [kind |-> "raise", site |-> "KeyError"]
         ELSE IF PickStream(d) = NoStream THEN [kind |-> "return", status |-> "no-stream"]
         ELSE [kind |-> "fetch", stream |-> PickStream(d)]

\* the selection is carried out
Select(i) ==
    /\ pc[i] = "select"
    /\ LET sel == Selection(streams[i])
       IN IF sel.kind = "raise" THEN Except(i, sel.site)
          ELSE IF sel.kind = "return" THEN Return(i, SkipResult(i, sel.status))
          ELSE BeginFetch(i, sel.stream)
    /\ UNCHANGED <<others, args, mainVars, tries, obs>>
    /\ Notify(i)

\* name + '.mp3', name being the path without its extension
Mp3PathOf(audio_file) == audio_file \o ".mp3"

\* faulty variant: a failed conversion raises out of download_audio
convert_to_mp3_if_needed_Fatal(audio_file, ffmpeg, convOk) ==
    IF ~convert_mp3 \/ ~PYDUB_AVAILABLE \/ ~ffmpeg
    THEN [raised |-> FALSE, path |-> audio_file, transcode |-> NoTranscode]
    ELSE IF convOk
    THEN [raised |-> FALSE, path |-> Mp3PathOf(audio_file),
          transcode |-> [ran |-> TRUE, ffmpeg |-> ffmpeg, failed |-> FALSE]]
    ELSE [raised |-> TRUE, path |-> None,
          transcode |-> [ran |-> TRUE, ffmpeg |-> ffmpeg, failed |-> TRUE]]

\* _convert_to_mp3_if_needed(audio_file, convert_mp3): the file is returned
\* as it is unless conversion was asked for, pydub is there and ffmpeg is on
\* the PATH; a conversion that fails is logged and the file returned as it is
convert_to_mp3_if_needed(audio_file, ffmpeg, convOk) ==
    IF ~convert_mp3 \/ ~PYDUB_AVAILABLE \/ ~ffmpeg
    THEN [raised |-> FALSE, path |-> audio_file, transcode |-> NoTranscode]
    ELSE IF convOk
    THEN [raised |-> FALSE, path |-> Mp3PathOf(audio_file),
          transcode |-> [ran |-> TRUE, ffmpeg |-> ffmpeg, failed |-> FALSE]]
    ELSE [raised |-> FALSE, path |-> audio_file,
          transcode |-> [ran |-> TRUE, ffmpeg |-> ffmpeg, failed |-> TRUE]]

\* the 'received' argument of the last invocation in the running attempt of
\* item i, 0 when there was none: the primary transfer reported chunks[i]
\* (video_cb keeps it in last_received), the yt-dlp transfer counts anew
Delivered(i) ==
    IF pc[i] = "fetch_ytdlp" /\ chunks[i] = 0 THEN last_received[i] ELSE chunks[i]

\* audio_cb / video_cb: the primary transfer reports progress
Progress(i) ==
    /\ pc[i] = "fetch"
    /\ chunks[i] < MaxChunks
    /\ LET received == chunks[i] + 1
           record == [status |-> "downloading", downloaded |-> received]
       IN /\ chunks' = [chunks EXCEPT ![i] = received]
          /\ last_received' = [last_received EXCEPT ![i] =
                                  IF audio_only THEN @ ELSE received]
          /\ obs' = [obs EXCEPT ![i] =
                        IF CallbackEscapes
                        THEN Deliver(@, "downloading", received, Delivered(i))
                        ELSE WriteProgress(Deliver(@, "downloading", received,
                                                   Delivered(i)),
                                           record)]
    /\ UNCHANGED <<others, args, mainVars, pc, attempts, tries, sleeps, streams, stream,
                   result>>
    /\ UNCHANGED waitVars

\* the stream was downloaded. Audio: download_audio converts the file if it
\* has to and returns, 'completed' is reported with 0 bytes and the item
\* returns 'ok'. Video: download_video returns, 'completed' is reported with
\* last_received, the record is written and the item returns 'ok'.
FetchOk(i) ==
    /\ pc[i] = "fetch"
    /\ IF audio_only
       THEN \E ffmpeg, convOk \in BOOLEAN :
               LET out == convert_to_mp3_if_needed(PathOf(i), ffmpeg, convOk)
                   o == [obs[i] EXCEPT !.transcode = out.transcode]
               IN IF out.raised
                  THEN /\ obs' = [obs EXCEPT ![i] = o]
                       /\ Except(i, "download")
                  ELSE /\ obs' = [obs EXCEPT ![i] =
                                     Deliver(o, "completed", 0, Delivered(i))]
                       /\ IF CallbackEscapes THEN Except(i, "callback")
                          ELSE Return(i, [OkResult(i) EXCEPT !.out = out.path])
       ELSE IF CallbackEscapes
       THEN /\ obs' = [obs EXCEPT ![i] =
                          Deliver(@, "completed", last_received[i], Delivered(i))]
            /\ IF YTDLP_AVAILABLE
               THEN /\ pc' = [pc EXCEPT ![i] = "fetch_ytdlp"]
                    /\ chunks' = [chunks EXCEPT ![i] = 0]
                    /\ UNCHANGED <<attempts, sleeps, result, streams, stream,
                                   last_received>>
               ELSE Except(i, "callback")
       ELSE /\ obs' = [obs EXCEPT ![i] =
                          WriteProgress(Deliver(@, "completed", last_received[i],
                                                Delivered(i)),
                                        [status |-> "completed",
                                         downloaded |-> last_received[i]])]
            /\ Return(i, OkResult(i))
    /\ UNCHANGED <<others, args, mainVars, tries>>
    /\ Notify(i)

\* download_audio / download_video raises: an audio item goes to the except
\* handler, a video item tries download_with_ytdlp first when it is available
FetchFail(i) ==
    /\ pc[i] = "fetch"
    /\ IF ~audio_only /\ YTDLP_AVAILABLE
       THEN /\ pc' = [pc EXCEPT ![i] = "fetch_ytdlp"]
            /\ chunks' = [chunks EXCEPT ![i] = 0]
            /\ UNCHANGED <<attempts, sleeps, result, streams, stream, last_received>>
       ELSE Except(i, "download")
    /\ UNCHANGED <<others, args, mainVars, tries, obs>>
    /\ Notify(i)

\* ytdlp_cb: the fallback transfer reports progress (callback only), the
\* bytes being those yt-dlp has downloaded
YtdlpProgress(i) ==
    /\ pc[i] = "fetch_ytdlp"
    /\ chunks[i] < MaxChunks
    /\ chunks' = [chunks EXCEPT ![i] = @ + 1]
    /\ obs' = [obs EXCEPT ![i] =
                  Deliver(@, "downloading", chunks[i] + 1, Delivered(i))]
    /\ UNCHANGED <<others, args, mainVars, pc, attempts, tries, sleeps, streams, stream,
                   last_received, result>>
    /\ UNCHANGED waitVars

\* download_with_ytdlp returns: 'completed' is reported with 0 bytes
YtdlpOk(i) ==
    /\ pc[i] = "fetch_ytdlp"
    /\ obs' = [obs EXCEPT ![i] = Deliver(@, "completed", 0, Delivered(i))]
    /\ IF CallbackEscapes THEN Except(i, "callback") ELSE Return(i, OkResult(i))
    /\ UNCHANGED <<others, args, mainVars, tries>>
    /\ Notify(i)

\* download_with_ytdlp raises, inside the inner except: the outer handler runs
YtdlpFail(i) ==
    /\ pc[i] = "fetch_ytdlp"
    /\ Except(i, "yt-dlp")
    /\ UNCHANGED <<others, args, mainVars, tries, obs>>
    /\ Notify(i)

\* ----------------------------------------------------------- collection
\* faulty variant: every result is appended
Collected_All(list, r) == Append(list, r.out)

\* `if status == 'ok' and out: downloaded.append(out)`
Collected(list, r) ==
    IF r.status = "ok" /\ r.out # None THEN Append(list, r.out) ELSE list

\* faulty variant: only successes are reported by the collector
FinalCallback_OkOnly(o, r) == IF r.status = "ok" THEN Callback(o, r.status, 4) ELSE o

\* `per_item_callback(title, status, video_url_meta, index_meta)`
FinalCallback(o, r) == Callback(o, r.status, 4)

\* faulty variant: any done future may be yielded next
Yieldable_Any(early, done) == {done[k] : k \in DOMAIN done}

\* the futures as_completed may yield next: those that were done when it
\* started come first, out of a set and so in no particular order; then
\* the others as they finish (`early`: the set, `done`: the done futures not
\* yet yielded, in the order in which they finished)
Yieldable(early, done) ==
    IF early # {} THEN early
    ELSE IF done # <<>> THEN {Head(done)}
    ELSE {}

\* one iteration of `for fut in as_completed(futures)`: fut.result() raises
\* what the call raised, else the final callback (4 arguments) and the append
Collect(i) ==
    /\ mainPc = "collect"
    /\ pc[i] = "done"
    /\ i \in Yieldable(finished, completed)
    /\ IF result[i].exc
       THEN /\ mainPc' = "raised"
            /\ UNCHANGED <<pc, obs, downloaded, waitVars>>
       ELSE IF CallbackEscapes
       THEN /\ mainPc' = "raised"
            /\ obs' = [obs EXCEPT ![i] = FinalCallback(@, result[i])]
            /\ UNCHANGED <<pc, downloaded, waitVars>>
       ELSE /\ pc' = [pc EXCEPT ![i] = "collected"]
            /\ obs' = [obs EXCEPT ![i] = FinalCallback(@, result[i])]
            /\ downloaded' = Collected(downloaded, result[i])
            /\ finished' = finished \ {i}
            /\ completed' = SelectSeq(completed, LAMBDA j : j # i)
            /\ UNCHANGED mainPc
    /\ UNCHANGED <<others, args, entries, video_urls, futures, attempts, tries, sleeps, streams,
                   stream, chunks, last_received, result>>

\* faulty variant: the loop is left after the first future
AllYielded_First == \E i \in Items : pc[i] = "collected"

\* `for fut in as_completed(futures)` is exhausted: every future was yielded
AllYielded == \A i \in Items : pc[i] = "collected"

\* every future was yielded: the pool is shut down and the list returned
Finish ==
    /\ mainPc = "collect"
    /\ AllYielded
    /\ mainPc' = "returned"
    /\ UNCHANGED <<others, args, entries, video_urls, futures, downloaded, itemVars, obs, waitVars>>

Next ==
    \/ ExtractPrimary
    \/ ExtractFallback
    \/ ExtractEntries
    \/ Submit
    \/ SubmitDone
    \/ Finish
    \/ \E i \in Slots :
          \/ Start(i)
          \/ Resolve(i)
          \/ Select(i)
          \/ Progress(i)
          \/ FetchOk(i)
          \/ FetchFail(i)
          \/ YtdlpProgress(i)
          \/ YtdlpOk(i)
          \/ YtdlpFail(i)
          \/ Wake(i)
          \/ Collect(i)

Spec == Init /\ [][Next]_vars

\* the same program run on playlists of at most one video: the pipeline of a
\* single item, with every argument and every failure pattern
InitItem ==
    /\ ArgsInit(0..1, BOOLEAN, MaxRetriesItem)
    /\ RunInit
    /\ call = NoCall
    /\ StoreIdle
    /\ UrlIdle /\ NameIdle /\ TrackIdle /\ SoloIdle

SpecItem == InitItem /\ [][Next]_vars

\* the same program run with a callback that raises whenever it is invoked
InitObserver ==
    /\ ArgsFrom(0..MaxItems, {FALSE}, MaxRetriesArg, {TRUE})
    /\ per_item_callback
    /\ RunInit
    /\ call = NoCall
    /\ StoreIdle
    /\ UrlIdle /\ NameIdle /\ TrackIdle /\ SoloIdle

SpecObserver == InitObserver /\ [][Next]_vars

\* a playlist run in which no thread that can take a step waits forever:
\* every backend call and every sleep returns or raises, and the threads of
\* the pool and the calling thread are scheduled.  The runs are those
\* without records and without a preferred resolution, neither of which
\* decides where a thread goes next.
InitLive == Init /\ ~progress_dir /\ resolution_preference = None

SpecLive == InitLive /\ [][Next]_vars /\ WF_vars(Next)

\* ------------------------------------------- get_video_streams on its own
\* no playlist run: the default arguments and an empty playlist
NoRun ==
    /\ ArgsInit({0}, {FALSE}, 0)
    /\ concurrency = 1 /\ max_retries = 0 /\ ~audio_only
    /\ resolution_preference = None /\ ~per_item_callback /\ ~progress_dir
    /\ RunInit

\* get_video_streams(url) is called for video i; what pytube and yt-dlp will
\* do is drawn, with yt-dlp installed or not
InitResolve ==
    /\ NoRun
    /\ StoreIdle
    /\ UrlIdle /\ NameIdle /\ TrackIdle /\ SoloIdle
    /\ \E i \in Slots, primary \in PrimaryOutcomes, fallbackOk \in BOOLEAN :
          call = [phase |-> "called", item |-> i, primary |-> primary,
                  fallbackOk |-> fallbackOk, ret |-> [raised |-> FALSE]]

\* the call returns or raises
ResolveCall ==
    /\ call.phase = "called"
    /\ call' = [call EXCEPT
                   !.phase = "returned",
                   !.ret = get_video_streams(call.item, call.primary, call.fallbackOk)]
    /\ UNCHANGED <<runVars, storeVars, pureVars>>

NextResolve == ResolveCall

SpecResolve == InitResolve /\ [][NextResolve]_vars

\* ------------------------------------------- progress_store.py on its own
\* A file is a sequence of chunks; names maps a file name to the file behind
\* it (0: no such name), disk holds the files, also those no name leads to
\* any more but a descriptor still does.  A record is the sequence of its
\* fields; the program writes 'downloading' records and the shorter
\* 'completed' record.
Downloading == <<"status=downloading", "downloaded=1", "total=2">>
Completed == <<"status=completed", "filename=file_1">>
Records == {Downloading, Completed}
EmptyRecord == <<>>
Hole == "NUL"

\* json.dump(data, f): the text arrives in the file chunk by chunk
Dump(record) == <<"{">> \o record \o <<"}">>

\* a file cut off in the middle of a record
Corrupt == <<"{", "status=downloading">>

\* faulty variant: the fields before the first closing brace are accepted
json_load_Lenient(text) ==
    LET ends == {k \in DOMAIN text : text[k] = "}"}
        stop == IF ends = {} THEN Len(text) + 1
                ELSE CHOOSE k \in ends : \A m \in ends : k <= m
    IN IF text = <<>> \/ text[1] # "{"
       THEN [raised |-> TRUE, data |-> EmptyRecord]
       ELSE [raised |-> FALSE, data |-> SubSeq(text, 2, stop - 1)]

\* json.load(f): one object from its opening to its closing brace and
\* nothing after it, else JSONDecodeError
json_load(text) ==
    IF /\ Len(text) >= 2
       /\ text[1] = "{"
       /\ text[Len(text)] = "}"
       /\ \A k \in 2..(Len(text) - 1) : text[k] \notin {"{", "}", Hole}
    THEN [raised |-> FALSE, data |-> SubSeq(text, 2, Len(text) - 1)]
    ELSE [raised |-> TRUE, data |-> EmptyRecord]

\* a write of one chunk at position pos of a file (positions from 1): past
\* the end of the file the gap is filled with NUL
RECURSIVE WriteAt(_, _, _)
WriteAt(text, pos, chunk) ==
    IF pos <= Len(text) THEN [text EXCEPT ![pos] = chunk]
    ELSE IF pos = Len(text) + 1 THEN Append(text, chunk)
    ELSE WriteAt(Append(text, Hole), pos, chunk)

\* what read_progress_file(path) returns for the files as they are
\* (open, json.load, `except Exception: return {}`)
read_progress_file(nm, dk) ==
    IF nm[Path] = 0 THEN EmptyRecord
    ELSE LET loaded == json_load(dk[nm[Path]])
         IN IF loaded.raised THEN EmptyRecord ELSE loaded.data

\* the path holds a complete record, a cut-off file or nothing, and no
\* write_progress_file or read_progress_file call has started
InitStore ==
    /\ NoRun
    /\ ~YTDLP_AVAILABLE
    /\ call = NoCall
    /\ initial \in {Dump(r) : r \in Records} \cup {Corrupt, <<>>}
    /\ names = [n \in FileNames |-> IF n = Path /\ initial # <<>> THEN 1 ELSE 0]
    /\ disk = [k \in Inodes |-> IF k = 1 THEN initial ELSE <<>>]
    /\ writer = [w \in Writers |-> NoWriter]
    /\ reader = NoReader
    /\ seen = {}
    /\ listed = <<>>
    /\ UrlIdle /\ NameIdle /\ TrackIdle /\ SoloIdle

\* the files that a name or an open descriptor leads to; the others are gone
Reclaimed(dk, nm, wr, rd) ==
    LET live == {nm[n] : n \in FileNames} \cup {wr[w].fd : w \in Writers} \cup {rd.fd}
    IN [k \in Inodes |-> IF k \in live THEN dk[k] ELSE <<>>]

\* write_progress_file(path, data) is called and `open(tmp, 'w')` creates
\* the temporary file or empties the one that is there, or raises (OSError)
\* and touches nothing
WriteOpen(w) ==
    /\ writer[w].pc = "idle"
    /\ \E data \in Records, ok \in BOOLEAN :
          LET tmp == TmpOf(Path)
              fd == IF names[tmp] = 0 THEN w + 1 ELSE names[tmp]
          IN IF ok
             THEN /\ names' = [names EXCEPT ![tmp] = fd]
                  /\ disk' = [disk EXCEPT ![fd] = <<>>]
                  /\ writer' = [writer EXCEPT ![w] =
                                   [pc |-> "dump", data |-> data, fd |-> fd, pos |-> 0,
                                    raised |-> None, left |-> FALSE]]
             ELSE /\ writer' = [writer EXCEPT ![w] =
                                   [pc |-> "except", data |-> data, fd |-> 0, pos |-> 0,
                                    raised |-> "open", left |-> FALSE]]
                  /\ UNCHANGED <<names, disk>>
    /\ UNCHANGED <<runVars, pureVars, call, initial, listed, reader, seen>>

\* json.dump writes the next chunk through the descriptor, or raises (an
\* OSError such as a full disk); after the last chunk, and when it raises,
\* the `with` block closes the file
WriteChunk(w) ==
    /\ writer[w].pc = "dump"
    /\ \E ok \in BOOLEAN :
          LET text == Dump(writer[w].data)
              pos == writer[w].pos + 1
              written == IF ok THEN [disk EXCEPT ![writer[w].fd] = WriteAt(@, pos, text[pos])]
                         ELSE disk
              wr == IF ~ok
                    THEN [writer EXCEPT ![w].pc = "except", ![w].raised = "dump",
                                        ![w].fd = 0, ![w].pos = 0]
                    ELSE IF pos = Len(text)
                    THEN [writer EXCEPT ![w].pc = "replace", ![w].fd = 0, ![w].pos = 0]
                    ELSE [writer EXCEPT ![w].pos = pos]
          IN /\ writer' = wr
             /\ disk' = Reclaimed(written, names, wr, reader)
    /\ UNCHANGED <<runVars, pureVars, call, initial, listed, names, reader, seen>>

\* os.replace(tmp, path): the name of the temporary file becomes the path
\* in one step; FileNotFoundError ("replace") when there is no temporary
\* file, or another OSError ("oserror") with nothing changed
WriteReplace(w) ==
    /\ writer[w].pc = "replace"
    /\ \E ok \in BOOLEAN :
          LET tmp == TmpOf(Path)
              nm == [n \in FileNames |->
                       IF n = Path THEN names[tmp]
                       ELSE IF n = tmp THEN 0 ELSE names[n]]
          IN IF names[tmp] = 0
             THEN /\ writer' = [writer EXCEPT ![w].pc = "except", ![w].raised = "replace"]
                  /\ UNCHANGED <<names, disk>>
             ELSE IF ~ok
             THEN /\ writer' = [writer EXCEPT ![w].pc = "except", ![w].raised = "oserror"]
                  /\ UNCHANGED <<names, disk>>
             ELSE /\ names' = nm
                  /\ writer' = [writer EXCEPT ![w].pc = "done"]
                  /\ disk' = Reclaimed(disk, nm, writer, reader)
    /\ UNCHANGED <<runVars, pureVars, call, initial, listed, reader, seen>>

\* faulty variant: the handler does not clean up
remove_tmp_Never(nm, removable) == [names |-> nm, left |-> FALSE]

\* `if os.path.exists(tmp): os.remove(tmp)` inside `try ... except OSError:
\* pass`: the directory entries afterwards, and whether os.remove raised
\* (the temporary file is then left)
remove_tmp(nm, removable) ==
    IF nm[TmpOf(Path)] = 0 THEN [names |-> nm, left |-> FALSE]
    ELSE IF removable THEN [names |-> [nm EXCEPT ![TmpOf(Path)] = 0], left |-> FALSE]
    ELSE [names |-> nm, left |-> TRUE]

\* `except Exception`: the error is logged, the temporary file removed if
\* there is one and it can be removed, and the call returns
WriteExcept(w) ==
    /\ writer[w].pc = "except"
    /\ \E removable \in BOOLEAN :
          LET after == remove_tmp(names, removable)
              wr == [writer EXCEPT ![w].pc = "done", ![w].left = after.left]
          IN /\ names' = after.names
             /\ writer' = wr
             /\ disk' = Reclaimed(disk, after.names, wr, reader)
    /\ UNCHANGED <<runVars, pureVars, call, initial, listed, reader, seen>>

\* read_progress_file(path) is called: open(path, 'r') raises when there is
\* no such file, and the call returns {}
ReadOpen ==
    /\ reader.pc = "idle"
    /\ IF names[Path] = 0
       THEN /\ seen' = seen \cup {EmptyRecord}
            /\ UNCHANGED reader
       ELSE /\ reader' = [pc |-> "load", fd |-> names[Path]]
            /\ UNCHANGED seen
    /\ UNCHANGED <<runVars, pureVars, call, initial, listed, names, disk, writer>>

\* json.load(f) reads the file behind the descriptor and the file is
\* closed; the call returns the record, or {} when the text is no JSON object
ReadLoad ==
    /\ reader.pc = "load"
    /\ LET loaded == json_load(disk[reader.fd])
       IN seen' = seen \cup {IF loaded.raised THEN EmptyRecord ELSE loaded.data}
    /\ reader' = NoReader
    /\ disk' = Reclaimed(disk, names, writer, NoReader)
    /\ UNCHANGED <<runVars, pureVars, call, initial, listed, names, writer>>

\* the strings the `*` of a pattern is tried with
Stems == {"", "uid", "uid.json"}

\* faulty variant: the pattern is '*'
fnmatch_json_Any(name) == \E stem \in Stems : name = stem \o ".json" \/ name = stem \o ".json.tmp"

\* a name matches '*.json': it is some string followed by '.json'
fnmatch_json(name) == \E stem \in Stems : name = stem \o ".json"

\* list_progress_files(output_folder) on the directory entries nm: [] when
\* the directory .progress is not there, else the names that match '*.json'
list_progress_files(nm, exists) ==
    IF ~exists THEN {}
    ELSE {n \in FileNames : nm[n] # 0 /\ fnmatch_json(n)}

\* list_progress_files is called; the directory is there when a file is in
\* it, and may be there or not when it holds none
ListFiles ==
    /\ \E exists \in BOOLEAN :
          /\ (\E n \in FileNames : names[n] # 0) => exists
          /\ listed' = <<[files |-> list_progress_files(names, exists),
                          names |-> names, exists |-> exists]>>
    /\ UNCHANGED <<runVars, pureVars, call, initial, names, disk, writer, reader, seen>>

NextStore ==
    \/ ReadOpen
    \/ ReadLoad
    \/ ListFiles
    \/ \E w \in Writers :
          \/ WriteOpen(w)
          \/ WriteChunk(w)
          \/ WriteReplace(w)
          \/ WriteExcept(w)

SpecStore == InitStore /\ [][NextStore]_vars

\* ------------------------------------------- _normalize_video_url on its own
\* A string is the sequence of its pieces: "https://" (scheme and the two
\* slashes), a host name, one of the delimiters / ? # & =, the words v, si
\* and shorts, and the characters of an id: a letter, a plus sign, the
\* percent-encoded ampersand, and what these decode to.
Watch == <<"https://", "www.youtube.com", "/", "watch", "?", "v", "=">>

\* index of the first piece of s that is in set, Len(s) + 1 if there is none
FirstIndex(s, set) ==
    IF \E k \in DOMAIN s : s[k] \in set
    THEN CHOOSE k \in DOMAIN s : s[k] \in set /\ \A m \in 1..(k - 1) : s[m] \notin set
    ELSE Len(s) + 1

\* str.split(sep)
RECURSIVE Split(_, _)
Split(s, sep) ==
    LET k == FirstIndex(s, {sep})
    IN IF k > Len(s) THEN <<s>>
       ELSE <<SubSeq(s, 1, k - 1)>> \o Split(SubSeq(s, k + 1, Len(s)), sep)

\* str.lstrip('/')
RECURSIVE LStrip(_)
LStrip(s) == IF s # <<>> /\ Head(s) = "/" THEN LStrip(Tail(s)) ELSE s

\* unquote(s.replace('+', ' ')) of parse_qs, piece by piece
Unquote(c) == IF c = "+" THEN " " ELSE IF c = "%26" THEN "&" ELSE c
Decode(s) == [k \in DOMAIN s |-> Unquote(s[k])]

\* urlparse(url): the network location follows the two slashes and ends at
\* the first / ? or #, the fragment starts at the first #, the query at the
\* first ? before it; an opening bracket without its closing one in the
\* network location raises ValueError
urlparse(u) ==
    LET scheme == u # <<>> /\ u[1] = "https://"
        slashes == Len(u) >= 2 /\ u[1] = "/" /\ u[2] = "/"
        after == IF scheme THEN Tail(u)
                 ELSE IF slashes THEN SubSeq(u, 3, Len(u)) ELSE u
        n == IF scheme \/ slashes THEN FirstIndex(after, {"/", "?", "#"}) - 1 ELSE 0
        netloc == SubSeq(after, 1, n)
        rest == SubSeq(after, n + 1, Len(after))
        h == FirstIndex(rest, {"#"})
        q == FirstIndex(SubSeq(rest, 1, h - 1), {"?"})
    IN [raised |-> (\E k \in DOMAIN netloc : netloc[k] = "[")
                   /\ (\A k \in DOMAIN netloc : netloc[k] # "]"),
        netloc |-> netloc,
        path |-> SubSeq(rest, 1, q - 1),
        query |-> SubSeq(rest, q + 1, h - 1),
        fragment |-> SubSeq(rest, h + 1, Len(rest))]

\* parse_qs(query).get(name): the decoded non-blank values of the fields
\* name=value whose decoded name is `name`, in order; a field without '='
\* and a field with a blank value are dropped
RECURSIVE ValuesOf(_, _)
ValuesOf(fields, name) ==
    IF fields = <<>> THEN <<>>
    ELSE LET f == Head(fields)
             e == FirstIndex(f, {"="})
             value == SubSeq(f, e + 1, Len(f))
         IN IF e <= Len(f) /\ value # <<>> /\ Decode(SubSeq(f, 1, e - 1)) = name
            THEN <<Decode(value)>> \o ValuesOf(Tail(fields), name)
            ELSE ValuesOf(Tail(fields), name)

parse_qs_get(query, name) == ValuesOf(Split(query, "&"), name)

\* `netloc.endswith('youtu.be')`
IsShortLink(netloc) == netloc # <<>> /\ netloc[Len(netloc)] = "youtu.be"

\* `netloc.endswith('youtube.com') or 'youtube' in netloc`
IsYoutube(netloc) == \E k \in DOMAIN netloc : netloc[k] = "www.youtube.com"

\* faulty variant: an exception of urlparse is not caught
normalize_video_url_NoExcept(u) ==
    LET parsed == urlparse(u)
        vid == LStrip(parsed.path)
        v == parse_qs_get(parsed.query, <<"v">>)
        parts == Split(parsed.path, "/")
        idx == FirstIndex(parts, {<<"shorts">>})
    IN IF parsed.raised THEN [raised |-> TRUE, value |-> <<>>]
       ELSE IF IsShortLink(parsed.netloc) /\ vid # <<>>
       THEN [raised |-> FALSE, value |-> Watch \o vid]
       ELSE IF IsYoutube(parsed.netloc) /\ v # <<>>
       THEN [raised |-> FALSE, value |-> Watch \o v[1]]
       ELSE IF IsYoutube(parsed.netloc) /\ idx < Len(parts)
       THEN [raised |-> FALSE, value |-> Watch \o parts[idx + 1]]
       ELSE [raised |-> FALSE, value |-> u]

\* _normalize_video_url(url): the short-link rule, then for a youtube host
\* the v parameter and then the segment after 'shorts'; else, and when
\* urlparse raised, the url as it is
normalize_video_url(u) ==
    LET parsed == urlparse(u)
        vid == LStrip(parsed.path)
        v == parse_qs_get(parsed.query, <<"v">>)
        parts == Split(parsed.path, "/")
        idx == FirstIndex(parts, {<<"shorts">>})
    IN IF parsed.raised THEN [raised |-> FALSE, value |-> u]
       ELSE IF IsShortLink(parsed.netloc) /\ vid # <<>>
       THEN [raised |-> FALSE, value |-> Watch \o vid]
       ELSE IF IsYoutube(parsed.netloc) /\ v # <<>>
       THEN [raised |-> FALSE, value |-> Watch \o v[1]]
       ELSE IF IsYoutube(parsed.netloc) /\ idx < Len(parts)
       THEN [raised |-> FALSE, value |-> Watch \o parts[idx + 1]]
       ELSE [raised |-> FALSE, value |-> u]

\* the inputs: no host, a short-link, a youtube, another or a malformed
\* host, then a path and a query built from ids of at most MaxIdLen pieces
IdPieces == {"a", "+", "%26"}
Ids == UNION {[1..n -> IdPieces] : n \in 0..MaxIdLen}
Hosts == {"youtu.be", "www.youtube.com", "example.com", "["}
Prefixes == {<<>>} \cup {<<"https://", h>> : h \in Hosts}
Paths ==
    {<<>>}
    \cup {<<"/">> \o x : x \in Ids}
    \cup {<<"/", "shorts", "/">> \o x : x \in Ids}
    \cup {<<"/">> \o x \o <<"/", "a">> : x \in Ids}
Fields == {<<k, "=">> \o x : k \in {"v", "si"}, x \in Ids}
Queries ==
    {<<>>}
    \cup {<<"?">> \o f : f \in Fields}
    \cup {<<"?">> \o f \o <<"&">> \o g : f, g \in Fields}
Urls == {p \o path \o q : p \in Prefixes, path \in Paths, q \in Queries}

\* no playlist run, no store call; a string is about to be normalized
InitUrl ==
    /\ NoRun
    /\ ~YTDLP_AVAILABLE
    /\ call = NoCall
    /\ StoreIdle
    /\ NameIdle /\ TrackIdle /\ SoloIdle
    /\ raw_url \in Urls
    /\ norm = <<>>

\* _normalize_video_url is called, on the string first and then on what
\* the call before returned
Normalize ==
    /\ Len(norm) < 2
    /\ Len(norm) = 1 => ~norm[1].raised
    /\ norm' = Append(norm, normalize_video_url(IF norm = <<>> THEN raw_url
                                                ELSE norm[1].value))
    /\ UNCHANGED <<runVars, call, storeVars, soloVars, raw_url, nameVars, trackVars>>

NextUrl == Normalize

SpecUrl == InitUrl /\ [][NextUrl]_vars

\* ------------------------------------------------ _safe_filename on its own
\* A title is the sequence of its characters.
SAFE_FILENAME_CHARS == {" ", ".", "_", "-", "(", ")", "[", "]"}

\* the characters for which str.isalnum() is true, among those of the titles
Alnum == {"a", "1"}

\* the characters str.strip() removes
Whitespace == {" ", "\t"}

\* str.strip()
RECURSIVE Strip(_)
Strip(t) ==
    IF t = <<>> THEN t
    ELSE IF Head(t) \in Whitespace THEN Strip(Tail(t))
    ELSE IF t[Len(t)] \in Whitespace THEN Strip(SubSeq(t, 1, Len(t) - 1))
    ELSE t

\* faulty variant: the outer whitespace stays
safe_filename_NoStrip(title) ==
    SelectSeq(title, LAMBDA c : c \in Alnum \/ c \in SAFE_FILENAME_CHARS)

\* _safe_filename(title)
safe_filename(title) ==
    Strip(SelectSeq(title, LAMBDA c : c \in Alnum \/ c \in SAFE_FILENAME_CHARS))

\* the titles: a letter, an allowed punctuation mark, a space, a tab and the
\* two path separators, at most MaxTitleLen of them
TitleChars == {"a", " ", ".", "/", "\\", "\t"}
Titles == UNION {[1..n -> TitleChars] : n \in 0..MaxTitleLen}

\* the path stream.download writes: the directory is that of the run, the
\* name is `filename` when it is not empty, else the default name pytube
\* derives from the title of the stream
Destination(title, filename) ==
    IF filename # <<>> THEN filename ELSE <<"default of">> \o title

\* items 1 and 2 of a playlist run have any titles, nothing was derived yet
InitName ==
    /\ NoRun
    /\ ~YTDLP_AVAILABLE
    /\ call = NoCall
    /\ StoreIdle
    /\ UrlIdle /\ TrackIdle /\ SoloIdle
    /\ titles \in [Pair -> Titles]
    /\ filenames = [i \in Pair |-> <<>>]
    /\ renamed = [i \in Pair |-> <<>>]
    /\ writing = [i \in Pair |-> FALSE]

\* `filename=_safe_filename(title)` in the call of download_audio or
\* download_video for item i, whose transfer starts
DeriveName(i) ==
    /\ filenames[i] = <<>>
    /\ filenames' = [filenames EXCEPT ![i] = <<safe_filename(titles[i])>>]
    /\ writing' = [writing EXCEPT ![i] = TRUE]
    /\ UNCHANGED <<runVars, call, storeVars, soloVars, urlVars, trackVars, titles, renamed>>

\* the transfer of item i ends
WriteEnds(i) ==
    /\ writing[i]
    /\ writing' = [writing EXCEPT ![i] = FALSE]
    /\ UNCHANGED <<runVars, call, storeVars, soloVars, urlVars, trackVars, titles, filenames,
                   renamed>>

\* _safe_filename applied to the name it returned for item i
SanitizeAgain(i) ==
    /\ filenames[i] # <<>>
    /\ renamed[i] = <<>>
    /\ renamed' = [renamed EXCEPT ![i] = <<safe_filename(filenames[i][1])>>]
    /\ UNCHANGED <<runVars, call, storeVars, soloVars, urlVars, trackVars, titles, filenames,
                   writing>>

NextName == \E i \in Pair : DeriveName(i) \/ WriteEnds(i) \/ SanitizeAgain(i)

SpecName == InitName /\ [][NextName]_vars

\* ------------------------------------------- the ids of the progress records
\* The downloads that write progress records below one destination
\* directory: the items of the playlist runs into it (each run given
\* progress_dir) and the background single downloads of the app.
\* tracked holds, per download, who it is, the record id it writes and
\* whether it is still running.
Runs == 1..MaxRuns

\* f'playlist_{index}', index being the position from enumerate (from 0)
playlist_id(i) == "playlist_" \o ToString(i - 1)

\* str(uuid.uuid4()) of the n-th call: a value no other call returns
uuid4(n) == "uuid4_" \o ToString(n)

InitTrack ==
    /\ NoRun
    /\ ~YTDLP_AVAILABLE
    /\ call = NoCall
    /\ StoreIdle
    /\ UrlIdle /\ NameIdle /\ SoloIdle
    /\ tracked = {}
    /\ uuids = 0

\* item i of playlist run r starts its transfer and writes its record
ItemStarts(r, i) ==
    /\ \A p \in tracked : p.owner # <<"playlist", r, i>>
    /\ tracked' = tracked \cup {[owner |-> <<"playlist", r, i>>,
                                  uid |-> playlist_id(i), running |-> TRUE]}
    /\ UNCHANGED <<runVars, call, storeVars, soloVars, urlVars, nameVars, uuids>>

\* the app starts a background download with a record id of its own
BackgroundStarts ==
    /\ uuids < MaxBackground
    /\ uuids' = uuids + 1
    /\ tracked' = tracked \cup {[owner |-> <<"background", 0, uuids + 1>>,
                                  uid |-> uuid4(uuids + 1), running |-> TRUE]}
    /\ UNCHANGED <<runVars, call, storeVars, soloVars, urlVars, nameVars>>

\* a download ends, its record stays
DownloadEnds(p) ==
    /\ p \in tracked
    /\ p.running
    /\ tracked' = (tracked \ {p}) \cup {[p EXCEPT !.running = FALSE]}
    /\ UNCHANGED <<runVars, call, storeVars, soloVars, urlVars, nameVars, uuids>>

NextTrack ==
    \/ \E r \in Runs, i \in Slots : ItemStarts(r, i)
    \/ BackgroundStarts
    \/ \E p \in tracked : DownloadEnds(p)

SpecTrack == InitTrack /\ [][NextTrack]_vars

\* ------------------------------------------- speed and ETA on their own
\* One video item whose transfers go through the primary backend, with the
\* clock of time.time().  Times are in microseconds, sizes in bytes; a speed
\* is the fraction num / den in bytes per second.
Second == 1000000

\* 1e-6 seconds
Epsilon == 1

\* what the clock can advance by between two events
ClockSteps == {1, Second}

Max(a, b) == IF a >= b THEN a ELSE b

NoReport == [attempt |-> 0]

\* faulty variant: the reference of the first attempt is kept for the item
start_time_ItemScoped(m) == IF m.begun = <<>> THEN m.now ELSE m.begun[1]

\* `start_time = time.time()` in the loop body, after the stream was picked
start_time(m) == m.now

\* video_cb(received, total) called when the clock reads now: elapsed, speed
\* and eta as computed there; raised when a division by zero was reached
video_cb(start, now, received, total) ==
    LET elapsed == Max(now - start, Epsilon)
        speed == [num |-> received * Second, den |-> elapsed]
    IN [elapsed |-> elapsed,
        speed |-> speed,
        eta |-> IF speed.num > 0 /\ elapsed # 0
                THEN ((total - received) * speed.den) \div speed.num
                ELSE 0,
        raised |-> elapsed = 0]

\* the item enters its first attempt; the stream has MaxBytes bytes
InitMeter ==
    /\ ArgsInit({0}, {FALSE}, MaxRetriesArg)
    /\ concurrency = 1 /\ ~audio_only /\ resolution_preference = None
    /\ ~per_item_callback /\ ~progress_dir /\ ~YTDLP_AVAILABLE
    /\ RunInit
    /\ call = NoCall
    /\ StoreIdle
    /\ UrlIdle /\ NameIdle /\ TrackIdle
    /\ single = NoSingle /\ job = NoJob
    /\ meter = [pc |-> "attempt", attempt |-> 1, now |-> 0, ticks |-> 0,
                start_time |-> 0, entered |-> <<0>>, begun |-> <<>>,
                received |-> 0, report |-> NoReport]

\* time passes
MeterTick ==
    /\ meter.pc \in {"attempt", "transfer"}
    /\ meter.ticks < MaxTicks
    /\ \E d \in ClockSteps :
          meter' = [meter EXCEPT !.now = @ + d, !.ticks = @ + 1]
    /\ UNCHANGED <<runVars, call, storeVars, urlVars, nameVars, trackVars, single, job>>

\* the attempt has resolved and picked its stream: start_time is set and
\* download_video is called
MeterBegin ==
    /\ meter.pc = "attempt"
    /\ meter' = [meter EXCEPT !.pc = "transfer",
                              !.start_time = start_time(meter),
                              !.begun = Append(@, meter.now),
                              !.received = 0]
    /\ UNCHANGED <<runVars, call, storeVars, urlVars, nameVars, trackVars, single, job>>

\* the transfer reports `received` of the MaxBytes bytes through video_cb
MeterReport ==
    /\ meter.pc = "transfer"
    /\ \E received \in meter.received..MaxBytes :
          LET r == video_cb(meter.start_time, meter.now, received, MaxBytes)
          IN meter' = [meter EXCEPT
                          !.received = received,
                          !.report = [attempt |-> meter.attempt, now |-> meter.now,
                                      received |-> received, total |-> MaxBytes,
                                      elapsed |-> r.elapsed, speed |-> r.speed,
                                      eta |-> r.eta, raised |-> r.raised]]
    /\ UNCHANGED <<runVars, call, storeVars, urlVars, nameVars, trackVars, single, job>>

\* the transfer fails: the item is given up after max_retries retries, else
\* it sleeps and enters the next attempt
MeterFail ==
    /\ meter.pc = "transfer"
    /\ IF Exhausted(meter.attempt)
       THEN meter' = [meter EXCEPT !.pc = "done"]
       ELSE meter' = [meter EXCEPT !.pc = "attempt", !.attempt = @ + 1,
                                   !.entered = Append(@, meter.now)]
    /\ UNCHANGED <<runVars, call, storeVars, urlVars, nameVars, trackVars, single, job>>

\* the transfer succeeds
MeterOk ==
    /\ meter.pc = "transfer"
    /\ meter' = [meter EXCEPT !.pc = "done"]
    /\ UNCHANGED <<runVars, call, storeVars, urlVars, nameVars, trackVars, single, job>>

NextMeter == MeterTick \/ MeterBegin \/ MeterReport \/ MeterFail \/ MeterOk

SpecMeter == InitMeter /\ [][NextMeter]_vars

\* ------------------------------------------- download_fallback on its own
\* single.calls: the backend calls made so far, in order; single.error: the
\* exception the primary path raised; single.reports: the invocations of
\* progress_callback; single.ret: what the call returned or raised
PrimaryFile == "pytube file"
YtdlpFile == "yt-dlp file"
YtdlpError == "yt-dlp:download"

\* faulty variant: download_with_ytdlp is called whatever YTDLP_AVAILABLE says,
\* and what it raises replaces the error of the primary path
except_handler_Replace(e) ==
    IF YTDLP_AVAILABLE THEN [next |-> "ytdlp", raised |-> None]
    ELSE [next |-> "raised", raised |-> "yt-dlp is not available"]

\* `except Exception:` of download_fallback, e being the exception caught:
\* download_with_ytdlp is called if yt-dlp is installed, else a bare `raise`
except_handler(e) ==
    IF YTDLP_AVAILABLE THEN [next |-> "ytdlp", raised |-> None]
    ELSE [next |-> "raised", raised |-> e]

\* download_fallback(url, output_path, audio_only, ..., progress_callback) is
\* called, with yt-dlp installed or not
InitSingle ==
    /\ ArgsInit({0}, {FALSE}, 0)
    /\ concurrency = 1 /\ resolution_preference = None
    /\ ~per_item_callback /\ ~progress_dir
    /\ RunInit
    /\ call = NoCall
    /\ StoreIdle
    /\ UrlIdle /\ NameIdle /\ TrackIdle
    /\ meter = NoMeter /\ job = NoJob
    /\ \E cb \in BOOLEAN :
          single = [pc |-> "resolve", progress_callback |-> cb, calls |-> <<>>,
                    error |-> None, chunks |-> 0, reports |-> 0,
                    ret |-> [raised |-> None, out |-> None]]

\* the primary path, having got as far as s, raised e: the handler runs
SingleExcept(s, e) ==
    LET h == except_handler(e)
    IN single' = [s EXCEPT
                     !.error = e,
                     !.chunks = 0,
                     !.pc = h.next,
                     !.calls = IF h.next = "ytdlp"
                               THEN Append(@, "download_with_ytdlp") ELSE @,
                     !.ret = [raised |-> h.raised, out |-> None]]

\* `yt = YouTube(url)`
SingleResolve ==
    /\ single.pc = "resolve"
    /\ \E ok \in BOOLEAN :
          IF ok
          THEN single' = [single EXCEPT !.pc = "select", !.calls = Append(@, "YouTube")]
          ELSE SingleExcept([single EXCEPT !.calls = Append(@, "YouTube")],
                            "pytube:resolve")
    /\ UNCHANGED <<runVars, call, storeVars, urlVars, nameVars, trackVars, meter, job>>

\* the best progressive stream, else the best adaptive one; without any,
\* RuntimeError; with one, download_video is called
SingleSelect ==
    /\ single.pc = "select"
    /\ \E found \in BOOLEAN :
          IF found
          THEN single' = [single EXCEPT !.pc = "fetch",
                                        !.calls = Append(@, "download_video")]
          ELSE SingleExcept(single, "pytube:select")
    /\ UNCHANGED <<runVars, call, storeVars, urlVars, nameVars, trackVars, meter, job>>

\* a transfer (of either backend) reports progress: progress_callback is
\* invoked when one was given
SingleProgress ==
    /\ single.pc \in {"fetch", "ytdlp"}
    /\ single.chunks < MaxChunks
    /\ single' = [single EXCEPT !.chunks = @ + 1,
                                !.reports = IF single.progress_callback
                                            THEN @ + 1 ELSE @]
    /\ UNCHANGED <<runVars, call, storeVars, urlVars, nameVars, trackVars, meter, job>>

\* download_video returns the path, which is returned, or raises
SingleFetch ==
    /\ single.pc = "fetch"
    /\ \E ok \in BOOLEAN :
          IF ok
          THEN single' = [single EXCEPT !.pc = "returned",
                                        !.ret = [raised |-> None, out |-> PrimaryFile]]
          ELSE SingleExcept(single, "pytube:fetch")
    /\ UNCHANGED <<runVars, call, storeVars, urlVars, nameVars, trackVars, meter, job>>

\* download_with_ytdlp returns the path, which is returned, or raises out of
\* the handler
SingleYtdlp ==
    /\ single.pc = "ytdlp"
    /\ \E ok \in BOOLEAN :
          single' = [single EXCEPT
                        !.pc = IF ok THEN "returned" ELSE "raised",
                        !.ret = IF ok THEN [raised |-> None, out |-> YtdlpFile]
                                ELSE [raised |-> YtdlpError, out |-> None]]
    /\ UNCHANGED <<runVars, call, storeVars, urlVars, nameVars, trackVars, meter, job>>

NextSingle ==
    SingleResolve \/ SingleSelect \/ SingleProgress \/ SingleFetch \/ SingleYtdlp

SpecSingle == InitSingle /\ [][NextSingle]_vars

\* ------------------------------------------- a background download on its own
\* The thread _bg_download of the app, which downloads one video with
\* download_with_ytdlp and a progress file of its own (id from uuid4).
\* job.writes: the records written to that file so far, in order;
\* job.outcome: whether download_with_ytdlp returned ("ok") or raised.
DownloadingRecord(n) == [status |-> "downloading", downloaded |-> n]
CompletedRecord(fname) == [status |-> "completed", filename |-> fname]
ErrorRecord(e) == [status |-> "error", error |-> e]

\* the events yt-dlp hands to the progress hook: the status, the byte count
\* and whether total, speed and eta are numbers (they can be None)
HookEvents ==
    [status : {"downloading", "finished"}, downloaded_bytes : 0..MaxBytes,
     numbers : BOOLEAN]

\* _hook(d) with a progress file: nothing for an event that is not
\* 'downloading'; else the record is written, unless int() or float() of a
\* None raises, which is caught and logged
hook(writes, d) ==
    IF d.status # "downloading" THEN writes
    ELSE IF ~d.numbers THEN writes
    ELSE Append(writes, DownloadingRecord(d.downloaded_bytes))

\* faulty variant: a failure is kept in the session state only
bg_except_Silent(writes, e) == writes

\* `except Exception as e:` of _bg_download: the error record is written
bg_except(writes, e) == Append(writes, ErrorRecord(e))

\* the thread was started; yt-dlp is installed or not
InitJob ==
    /\ ArgsInit({0}, {FALSE}, 0)
    /\ concurrency = 1 /\ ~audio_only /\ resolution_preference = None
    /\ ~per_item_callback /\ ~progress_dir
    /\ RunInit
    /\ call = NoCall
    /\ StoreIdle
    /\ UrlIdle /\ NameIdle /\ TrackIdle
    /\ meter = NoMeter /\ single = NoSingle
    /\ job = [pc |-> "start", writes |-> <<>>, hooks |-> 0, outcome |-> None]

\* download_with_ytdlp is entered: RuntimeError without yt-dlp
JobStart ==
    /\ job.pc = "start"
    /\ IF YTDLP_AVAILABLE
       THEN job' = [job EXCEPT !.pc = "transfer"]
       ELSE job' = [job EXCEPT !.pc = "done", !.outcome = "failed",
                               !.writes = bg_except(@, "yt-dlp is not available")]
    /\ UNCHANGED <<runVars, call, storeVars, urlVars, nameVars, trackVars, meter, single>>

\* yt-dlp calls the progress hook during extract_info
JobHook ==
    /\ job.pc = "transfer"
    /\ job.hooks < MaxHooks
    /\ \E d \in HookEvents :
          job' = [job EXCEPT !.hooks = @ + 1, !.writes = hook(@, d)]
    /\ UNCHANGED <<runVars, call, storeVars, urlVars, nameVars, trackVars, meter, single>>

\* extract_info returns, _write_completion_status writes the record and
\* download_with_ytdlp returns the file name; or extract_info raises and the
\* handler of _bg_download runs
JobTransferEnds ==
    /\ job.pc = "transfer"
    /\ \E ok \in BOOLEAN :
          IF ok
          THEN job' = [job EXCEPT !.pc = "final", !.outcome = "ok",
                                  !.writes = Append(@, CompletedRecord(YtdlpFile))]
          ELSE job' = [job EXCEPT !.pc = "done", !.outcome = "failed",
                                  !.writes = bg_except(@, YtdlpError)]
    /\ UNCHANGED <<runVars, call, storeVars, urlVars, nameVars, trackVars, meter, single>>

\* "write final status" in _bg_download, then the session state is set
JobFinal ==
    /\ job.pc = "final"
    /\ job' = [job EXCEPT !.pc = "done",
                          !.writes = Append(@, CompletedRecord(YtdlpFile))]
    /\ UNCHANGED <<runVars, call, storeVars, urlVars, nameVars, trackVars, meter, single>>

NextJob == JobStart \/ JobHook \/ JobTransferEnds \/ JobFinal

SpecJob == InitJob /\ [][NextJob]_vars

\* ------------------------------------------------------------ vocabulary
Sites == {"RuntimeError", "KeyError", "download", "yt-dlp"}
ErrorStatuses == {ErrorStatus(Msg(site, k)) : site \in Sites, k \in 1..(MaxRetriesItem + 1)}
SkipStatuses == {"no-audio", "no-stream"}
IsError(status) == status \in ErrorStatuses
Done(i) == pc[i] \in {"done", "collected"}
Succeeded == {i \in Items : Done(i) /\ result[i].status = "ok"}

\* ------------------------------------------------------------------ C1
\* C1: in every reachable state the number of items whose _download_one call
\* is executing (resolving, selecting, transferring or sleeping before a
\* retry) is at most the concurrency argument.
C1_ConcurrencyBound == Cardinality(Running) <= concurrency

\* the pool is full while an item waits and a running item is on a retry
C1_Witness ==
    /\ Cardinality(Running) = concurrency
    /\ \E i \in Items : pc[i] = "queued"
    /\ \E j \in Running : attempts[j] > 0 /\ pc[j] = "fetch"

\* ------------------------------------------------------------------ C2
\* C2: a playlist run never aborts because of an item: download_playlist
\* raises only from the enumeration, before any item was submitted; no item
\* call raises, each finished item holds a terminal status; the run returns
\* only when every item was collected; and until it has returned or raised
\* some step of the run is always possible (nothing waits on a failed item).
C2_NeverAborts ==
    /\ mainPc = "raised" => futures = 0
    /\ \A i \in Slots :
          Done(i) => /\ ~result[i].exc
                     /\ result[i].status \in {"ok"} \cup SkipStatuses \cup ErrorStatuses
    /\ mainPc = "returned" => \A i \in Items : pc[i] = "collected"
    /\ mainPc \notin {"returned", "raised"} => ENABLED Next

\* a run that returned with a failed item and a successful sibling
C2_Witness ==
    /\ mainPc = "returned"
    /\ \E i, j \in Items : IsError(result[i].status) /\ result[j].status = "ok"

\* ------------------------------------------------------------------ C3
\* C3: an item that has been taken up by a worker has made at least one and
\* at most max_retries + 1 attempts (at most 3 with the default max_retries),
\* each failure caught was counted once, and an unstarted item has made none.
C3_AttemptBounds ==
    \A i \in Slots :
        /\ tries[i] <= max_retries + 1
        /\ (pc[i] \in {"unsubmitted", "queued"}) => tries[i] = 0
        /\ (pc[i] \notin {"unsubmitted", "queued"}) => tries[i] >= 1
        /\ max_retries = DEFAULT_MAX_RETRIES => tries[i] <= 3
        /\ attempts[i] <= tries[i]

\* an item ended after the third attempt of a run with the default retries
C3_Witness ==
    \E i \in Items :
        Done(i) /\ max_retries = DEFAULT_MAX_RETRIES /\ tries[i] = 3 /\ attempts[i] = 3

\* ------------------------------------------------------------------ C4
\* C4: with max_retries = 2, an item that failed exactly twice and then
\* succeeded ends 'ok' with a path after exactly 3 attempts and exactly two
\* sleeps, the second strictly longer than the first.
C4_TwoFailuresThenSuccess ==
    \A i \in Slots :
        (max_retries = 2 /\ Done(i) /\ attempts[i] = 2 /\ result[i].status = "ok")
        => /\ tries[i] = 3
           /\ result[i].out \in {PathOf(i), Mp3PathOf(PathOf(i))}
           /\ Len(sleeps[i]) = 2
           /\ sleeps[i][2] > sleeps[i][1]

C4_Witness ==
    \E i \in Items :
        max_retries = 2 /\ Done(i) /\ attempts[i] = 2 /\ result[i].status = "ok"

\* ------------------------------------------------------------------ C5
\* C5: an item all of whose attempts failed has made exactly
\* max_retries + 1 attempts and its call returned (did not raise) the result
\* (None, url, 'error:<message>'), the message being that of the failure of
\* the last attempt.
C5_ExhaustionReportsLastFailure ==
    \A i \in Slots :
        (Done(i) /\ attempts[i] > max_retries)
        => /\ tries[i] = max_retries + 1
           /\ attempts[i] = max_retries + 1
           /\ ~result[i].exc
           /\ result[i].out = None
           /\ \E site \in Sites :
                 result[i].status = "error:" \o Msg(site, max_retries + 1)

\* an item exhausted its retries, the last failure being a yt-dlp transfer
C5_Witness ==
    \E i \in Items :
        /\ Done(i) /\ max_retries >= 1 /\ attempts[i] > max_retries
        /\ result[i].status = "error:" \o Msg("yt-dlp", max_retries + 1)

\* ------------------------------------------------------------------ C6
\* the primary backend resolved the item and the list the mode reads is empty
NoCandidate(d) ==
    /\ d.backend = "pytube"
    /\ IF audio_only THEN d.audio = <<>>
       ELSE d.progressive = <<>> /\ d.adaptive_video = <<>>

\* C6: when the resolution succeeded and no candidate is selectable, the next
\* step of the item ends it in the skip status of the mode (no-audio or
\* no-stream, not an error) without a transfer, a callback, a sleep or a new
\* attempt; and a skipped item never changes again except for being collected.
C6_SkipIsImmediate ==
    [][\A i \in Slots :
         /\ (pc[i] = "select" /\ NoCandidate(streams[i]) /\ pc'[i] # pc[i])
            => /\ pc'[i] = "done"
               /\ result'[i].status = (IF audio_only THEN "no-audio" ELSE "no-stream")
               /\ result'[i].status \notin ErrorStatuses
               /\ result'[i].out = None
               /\ ~result'[i].exc
               /\ attempts'[i] = attempts[i]
               /\ tries'[i] = tries[i]
               /\ sleeps'[i] = sleeps[i]
               /\ obs'[i] = obs[i]
         /\ (Done(i) /\ result[i].status \in SkipStatuses)
            => /\ pc'[i] \in {"done", "collected"}
               /\ result'[i] = result[i]
               /\ attempts'[i] = attempts[i]
               /\ tries'[i] = tries[i]
               /\ sleeps'[i] = sleeps[i]
               /\ stream'[i] = NoStream
               /\ obs'[i].rec = obs[i].rec
      ]_vars

\* an item was skipped in its second attempt, after one failure and one sleep
C6_Witness ==
    \E i \in Items :
        /\ Done(i) /\ result[i].status \in SkipStatuses
        /\ tries[i] = 2 /\ attempts[i] = 1 /\ Len(sleeps[i]) = 1

\* ------------------------------------------------------------------ C7
\* C7: the list download_playlist returns holds exactly one path for each
\* item whose terminal status is 'ok' and nothing else: its length is the
\* number of successful items and no error or skipped item has an entry.
C7_ReturnedListIsSuccesses ==
    mainPc = "returned"
    => /\ Len(downloaded) = Cardinality(Succeeded)
       /\ \A i \in Items :
             result[i].status = "ok" <=> \E k \in DOMAIN downloaded : downloaded[k] = PathOf(i)
       /\ \A k \in DOMAIN downloaded : \E i \in Succeeded : downloaded[k] = PathOf(i)

\* a run returned one path for two items, the other one not successful
C7_Witness ==
    /\ mainPc = "returned"
    /\ Len(video_urls) = 2
    /\ Len(downloaded) = 1
    /\ \E i \in Items : result[i].status \in SkipStatuses \cup ErrorStatuses

\* ------------------------------------------------------------------ C8
\* what the returned list says about item i: its path is there or it is not
StatusInReturn(i) ==
    IF \E k \in DOMAIN downloaded : downloaded[k] = PathOf(i) THEN "ok" ELSE "unknown"

C9_NothingAfterTerminal == \A i \in Slots : obs[i].late = {}

\* ----------------------------------------------------------------- C10
\* C10 as stated: the terminal status of every item (completed for a
\* success, else the error or skip status) reaches the callback in an
\* invocation with all 8 arguments.
C10_TerminalInFullShape ==
    \A i \in Items :
        (per_item_callback /\ pc[i] = "collected")
        => \E c \in obs[i].cbs :
              /\ c[2] = 8
              /\ c[1] = (IF result[i].status = "ok" THEN "completed" ELSE result[i].status)

\* ----------------------------------------------------------------- C11
\* the entry carries a URL the loop of the flat extraction takes
HasUrl(entry) == entry.dict /\ (entry.webpage_url # None \/ entry.url # None)

\* C11: the fallback enumeration is entered only from a primary enumeration
\* that did not return, and only when yt-dlp is available (with yt-dlp the
\* primary step raises only for an empty list it returned); a list the
\* primary returned is used as it is; a list taken over from the fallback is
\* the URLs of its entries in their order; the list never changes afterwards
\* and its items are submitted and started in list order.
C11_FallbackEnumeration ==
    [][/\ (mainPc' = "enumerate_ytdlp")
          => (mainPc = "enumerate_ytdlp" \/ (mainPc = "enumerate" /\ YTDLP_AVAILABLE))
       /\ (mainPc' = "enumerate_entries")
          => (mainPc \in {"enumerate_ytdlp", "enumerate_entries"} /\ YTDLP_AVAILABLE)
       /\ (mainPc = "enumerate" /\ mainPc' = "submit")
          => video_urls' = UrlList(playlist)
       /\ (mainPc = "enumerate" /\ mainPc' = "raised" /\ YTDLP_AVAILABLE)
          => playlist = 0
       /\ (mainPc = "enumerate_entries" /\ mainPc' = "submit")
          => video_urls' =
                SelectSeq(UrlList(Len(entries)),
                          LAMBDA u : \E k \in DOMAIN entries :
                                        HasUrl(entries[k]) /\ u = UrlOf(k))
       /\ (mainPc \notin {"enumerate", "enumerate_ytdlp", "enumerate_entries"})
          => video_urls' = video_urls
       /\ (futures' # futures)
          => /\ futures' = futures + 1
             /\ pc[futures'] = "unsubmitted" /\ pc'[futures'] = "queued"
       /\ \A i \in Slots :
             (pc[i] = "queued" /\ pc'[i] # "queued")
             => \A j \in 1..(i - 1) : pc[j] \notin {"unsubmitted", "queued"}
      ]_vars

\* the fallback listed two entries, the first without a URL: the run works on
\* the one-element list of the second and its only item was started
C11_Witness ==
    /\ playlist = 2
    /\ video_urls = <<UrlOf(2)>>
    /\ pc[1] \notin {"unsubmitted", "queued"}

\* ----------------------------------------------------------------- C12
\* C12: when download_playlist raised, it did so from the enumeration, with
\* no item submitted or started, no callback invoked, no record written and
\* no path collected; and a run gets past the enumeration only with a
\* non-empty list (zero items raise, a fallback is there only with yt-dlp).
C12_EnumerationFailureIsClean ==
    /\ mainPc = "raised"
       => /\ futures = 0 /\ video_urls = <<>> /\ downloaded = <<>>
          /\ \A i \in Slots :
                pc[i] = "unsubmitted" /\ tries[i] = 0 /\ obs[i] = NoObs
                /\ result[i] = NoResult
    /\ mainPc \in {"submit", "collect", "returned"} => video_urls # <<>>
    /\ mainPc \in {"enumerate_ytdlp", "enumerate_entries"} => YTDLP_AVAILABLE
    /\ mainPc \in {"enumerate", "enumerate_ytdlp", "enumerate_entries"}
       => futures = 0 /\ \A i \in Slots : pc[i] = "unsubmitted" /\ obs[i] = NoObs

\* the run raised although the playlist has a video: the primary enumeration
\* failed and the fallback was missing, failed too or listed nothing usable
C12_Witness ==
    /\ mainPc = "raised"
    /\ playlist >= 1

\* ----------------------------------------------------------------- C13
\* C13: a returned get_video_streams call asked pytube first and yt-dlp only
\* after pytube had failed; it returns a dict tagged 'pytube' iff pytube
\* succeeded and a dict tagged 'yt-dlp' iff pytube failed and yt-dlp is
\* installed and succeeded; in every other case (pytube failed and yt-dlp
\* is missing or failed too) it raises and returns no dict.
C13_BackendTag ==
    call.phase = "returned"
    => LET ret == call.ret
           fallback == ~call.primary.ok /\ YTDLP_AVAILABLE /\ call.fallbackOk
       IN /\ ret.tried[1] = "pytube"
          /\ ret.tried \in {<<"pytube">>, <<"pytube", "yt-dlp">>}
          /\ (Len(ret.tried) = 2) = (~call.primary.ok /\ YTDLP_AVAILABLE)
          /\ ret.raised = (~call.primary.ok /\ ~fallback)
          /\ ret.raised => "dict" \notin DOMAIN ret
          /\ ~ret.raised
             => /\ (ret.dict.backend = "pytube") = call.primary.ok
                /\ (ret.dict.backend = "yt-dlp") = fallback
                /\ ret.dict.title = TitleOf(call.item)

\* pytube failed, yt-dlp answered and the call returned its dict
C13_Witness ==
    /\ call.phase = "returned"
    /\ ~call.primary.ok
    /\ ~call.ret.raised
    /\ call.ret.dict.backend = "yt-dlp"

\* ----------------------------------------------------------------- C14
\* C14 as stated: an item whose resolution came from the fallback backend
\* (pytube failed, yt-dlp answered) is carried on to the fallback transfer:
\* its next step starts that transfer and is not counted as a failure.
C14_FallbackResolutionCarriedThrough ==
    [][\A i \in Slots :
         (pc[i] = "select" /\ streams[i].backend = "yt-dlp" /\ pc'[i] # pc[i])
         => /\ pc'[i] = "fetch_ytdlp"
            /\ attempts'[i] = attempts[i]
      ]_vars

\* ----------------------------------------------------------------- C15
\* C15 as stated: with yt-dlp available, a primary transfer that fails, of a
\* video or of an audio item, is followed in the same attempt by the fallback
\* transfer; a failure is counted during a transfer only when the fallback
\* transfer failed or yt-dlp is missing.
C15_FallbackTransferBeforeRetry ==
    [][\A i \in Slots :
         /\ (/\ pc[i] = "fetch" /\ YTDLP_AVAILABLE /\ pc'[i] # "fetch"
             /\ ~(pc'[i] = "done" /\ result'[i].status = "ok"))
            => (pc'[i] = "fetch_ytdlp" /\ attempts'[i] = attempts[i])
         /\ (pc[i] \in {"fetch", "fetch_ytdlp"} /\ attempts'[i] # attempts[i])
            => (pc[i] = "fetch_ytdlp" \/ ~YTDLP_AVAILABLE)
      ]_vars

\* ----------------------------------------------------------------- C16
\* C16: the conversion runs only for an audio item, when convert_mp3 was
\* given, pydub is there and ffmpeg was found; the step in which it runs ends
\* the item 'ok' without counting a failure or sleeping, with the .mp3 path
\* when it succeeded and the path of the downloaded file when it failed; an
\* audio item that ends 'ok' without conversion has the downloaded path.
C16_TranscodeIsBestEffort ==
    [][\A i \in Slots :
         LET t == obs'[i].transcode
         IN /\ t.ran => /\ audio_only /\ convert_mp3 /\ PYDUB_AVAILABLE /\ t.ffmpeg
                        /\ Done(i)' /\ result'[i].status = "ok"
                        /\ ~result'[i].exc
                        /\ result'[i].out = (IF t.failed THEN PathOf(i)
                                             ELSE Mp3PathOf(PathOf(i)))
            /\ t.failed => t.ran
            /\ (t.ran /\ ~obs[i].transcode.ran)
               => /\ pc[i] = "fetch"
                  /\ attempts'[i] = attempts[i]
                  /\ sleeps'[i] = sleeps[i]
                  /\ tries'[i] = tries[i]
            /\ (Done(i)' /\ result'[i].status = "ok" /\ ~t.ran)
               => result'[i].out = PathOf(i)
      ]_vars

\* an audio item ended 'ok' on its second attempt with the path of the
\* downloaded file, the conversion having failed; it slept once, before
C16_Witness ==
    \E i \in Items :
        /\ Done(i) /\ result[i].status = "ok" /\ result[i].out = PathOf(i)
        /\ obs[i].transcode.ran /\ obs[i].transcode.failed
        /\ tries[i] = 2 /\ attempts[i] = 1 /\ Len(sleeps[i]) = 1

\* ----------------------------------------------------------------- C17
\* C17 as stated: within one attempt of an item no invocation of the callback
\* carries a 'received' below that of the invocation before it, be it a
\* progress report of the primary transfer, one of the fallback transfer
\* after the switch, or the 'completed' notification.
C17_ReceivedNeverDrops == \A i \in Slots : obs[i].regress = {}

\* ----------------------------------------------------------------- C18
\* C18: while at most one write_progress_file call has started on a path
\* that held a complete record, every read_progress_file call that has
\* returned, and a read at the present moment, gave that record or the
\* record being written, whole: never {} and never part of a record.
C18_ReadersSeeOldOrNew ==
    \A w \in Writers :
        (/\ initial \in {Dump(r) : r \in Records}
         /\ \A v \in Writers \ {w} : writer[v].pc = "idle")
        => LET whole == {json_load(initial).data}
                        \cup (IF writer[w].pc = "idle" THEN {} ELSE {writer[w].data})
           IN /\ seen \subseteq whole
              /\ read_progress_file(names, disk) \in whole

\* a read opened the file before the only writer replaced it and has not
\* loaded it yet; the reads so far returned the old record
C18_Witness ==
    \E w \in Writers :
        /\ \A v \in Writers \ {w} : writer[v].pc = "idle"
        /\ initial = Dump(Downloading)
        /\ writer[w].pc = "done" /\ writer[w].raised = None
        /\ writer[w].data = Completed
        /\ reader.pc = "load" /\ reader.fd = 1
        /\ seen = {Downloading}

\* ----------------------------------------------------------------- C19
\* C19: when one write_progress_file call has returned without an error and
\* no other call has started, the file is exactly the text of its record and
\* read_progress_file returns that record, whatever the path held before;
\* with no write, a path that does not exist or holds a cut-off file reads
\* as {} and a complete file as its record; no read returns anything else.
C19_RoundTrip ==
    /\ \A w \in Writers :
          (/\ writer[w].pc = "done" /\ writer[w].raised = None
           /\ \A v \in Writers \ {w} : writer[v].pc = "idle")
          => /\ names[Path] # 0
             /\ disk[names[Path]] = <<"{">> \o writer[w].data \o <<"}">>
             /\ read_progress_file(names, disk) = writer[w].data
    /\ (\A w \in Writers : writer[w].pc = "idle")
       => /\ initial \in {Corrupt, <<>>}
             => (read_progress_file(names, disk) = EmptyRecord /\ seen \subseteq {EmptyRecord})
          /\ \A r \in Records :
                initial = <<"{">> \o r \o <<"}">>
                => (read_progress_file(names, disk) = r /\ seen \subseteq {r})

\* the shorter record was written over the longer one and read back
C19_Witness ==
    \E w \in Writers :
        /\ \A v \in Writers \ {w} : writer[v].pc = "idle"
        /\ initial = Dump(Downloading)
        /\ writer[w].pc = "done" /\ writer[w].raised = None
        /\ writer[w].data = Completed
        /\ reader.pc = "idle"
        /\ Completed \in seen

\* ----------------------------------------------------------------- C20
\* C20 as stated: when all the write_progress_file calls on a path have
\* returned, none of them stopped by an error of the file system (in open,
\* json.dump or os.replace with the temporary file there), the path exists
\* and holds exactly the text of the record of one of them, and none of them
\* ended in an error.
C20_LastWriterWins ==
    (\A w \in Writers : writer[w].pc = "done" /\ writer[w].raised \in {None, "replace"})
    => /\ names[Path] # 0
       /\ \E w \in Writers : disk[names[Path]] = Dump(writer[w].data)
       /\ \A w \in Writers : writer[w].raised = None

\* ----------------------------------------------------------------- C21
\* what the path held before any write_progress_file call, as a read gives it
InitialRecord == IF json_load(initial).raised THEN EmptyRecord ELSE json_load(initial).data

\* the only write_progress_file call that has started is w, and it failed
OnlyFailed(w) ==
    /\ \A v \in Writers \ {w} : writer[v].pc = "idle"
    /\ writer[w].raised # None

\* the path and the file behind it are what they were before the call
StoredUnchanged ==
    /\ names[Path] = (IF initial = <<>> THEN 0 ELSE 1)
    /\ disk[1] = initial
    /\ read_progress_file(names, disk) = InitialRecord
    /\ seen \subseteq {InitialRecord}

\* C21 as stated: a write_progress_file call that failed (in open, json.dump
\* or os.replace), no other call having started, returns to its caller,
\* leaves the path and the record behind it as they were, so that every read
\* gives the record stored before, and leaves no temporary file.
C21_FailedWriteLeavesNoTrace ==
    \A w \in Writers :
        OnlyFailed(w)
        => /\ writer[w].pc \in {"except", "done"}
           /\ writer[w].pc = "except" => ENABLED WriteExcept(w)
           /\ StoredUnchanged
           /\ writer[w].pc = "done" => names[TmpOf(Path)] = 0

\* C21 as amended: the same, the temporary file being gone when the call
\* returns unless os.remove failed too; that failure is swallowed like the
\* first and the file then stays.
C21_FailedWriteIsContained ==
    \A w \in Writers :
        OnlyFailed(w)
        => /\ writer[w].pc \in {"except", "done"}
           /\ writer[w].pc = "except" => ENABLED WriteExcept(w)
           /\ StoredUnchanged
           /\ writer[w].pc = "done"
              => (names[TmpOf(Path)] = 0) = ~writer[w].left
           /\ writer[w].left => writer[w].raised \in {"dump", "oserror"}

\* json.dump failed while the shorter record was written over the longer
\* one; the call returned, the temporary file is gone and a read after it
\* gave the longer record
C21_Witness ==
    \E w \in Writers :
        /\ OnlyFailed(w)
        /\ writer[w].pc = "done" /\ writer[w].raised = "dump" /\ ~writer[w].left
        /\ writer[w].data = Completed
        /\ initial = Dump(Downloading)
        /\ names[TmpOf(Path)] = 0
        /\ reader.pc = "idle" /\ seen = {Downloading}

\* ----------------------------------------------------------------- C22
\* C22 as stated: in a run with progress_dir, the record of every item
\* whose pipeline has ended holds the terminal status of the item: completed
\* for a success (audio, video by the primary backend, video by the
\* fallback backend), else the error or skip status.
C22_RecordEndsTerminal ==
    \A i \in Items :
        (progress_dir /\ Done(i))
        => obs[i].rec.status =
              (IF result[i].status = "ok" THEN "completed" ELSE result[i].status)

\* ----------------------------------------------------------------- C23
\* C23 as stated: for every string, normalizing the normalized string gives
\* the normalized string again.
C23_NormalizeIsIdempotent ==
    Len(norm) = 2 => norm[2].value = norm[1].value

\* ----------------------------------------------------------------- C24
\* the parts of the input the rules look at
ShortLinkId == LStrip(urlparse(raw_url).path)
VParameter == parse_qs_get(urlparse(raw_url).query, <<"v">>)
Segments == Split(urlparse(raw_url).path, "/")
ShortsAt == FirstIndex(Segments, {<<"shorts">>})
ByShortLink ==
    ~urlparse(raw_url).raised /\ IsShortLink(urlparse(raw_url).netloc) /\ ShortLinkId # <<>>
ByParameter ==
    /\ ~urlparse(raw_url).raised /\ ~ByShortLink
    /\ IsYoutube(urlparse(raw_url).netloc) /\ VParameter # <<>>

\* C24 as stated: no call raises; a short-link host with a path segment gives
\* the watch form of the segment; otherwise a youtube host with a v
\* parameter gives the watch form of its first value and nothing else of the
\* query; otherwise a path with a segment after 'shorts', on any host, gives
\* the watch form of that segment; every other string is returned unchanged.
C24_RulesOnAnyHost ==
    Len(norm) >= 1
    => LET ByShorts == /\ ~urlparse(raw_url).raised /\ ~ByShortLink /\ ~ByParameter
                       /\ ShortsAt < Len(Segments)
       IN /\ ~norm[1].raised
          /\ ByShortLink => norm[1].value = Watch \o ShortLinkId
          /\ ByParameter => norm[1].value = Watch \o VParameter[1]
          /\ ByShorts => norm[1].value = Watch \o Segments[ShortsAt + 1]
          /\ ~(ByShortLink \/ ByParameter \/ ByShorts) => norm[1].value = raw_url

\* C24 as amended: the same, the third rule applying to youtube hosts only;
\* a 'shorts' path on another host or on no host is returned unchanged.
C24_RulesInPriorityOrder ==
    Len(norm) >= 1
    => LET ByShorts == /\ ~urlparse(raw_url).raised /\ ~ByShortLink /\ ~ByParameter
                       /\ IsYoutube(urlparse(raw_url).netloc)
                       /\ ShortsAt < Len(Segments)
       IN /\ ~norm[1].raised
          /\ ByShortLink => norm[1].value = Watch \o ShortLinkId
          /\ ByParameter => norm[1].value = Watch \o VParameter[1]
          /\ ByShorts => norm[1].value = Watch \o Segments[ShortsAt + 1]
          /\ ~(ByShortLink \/ ByParameter \/ ByShorts) => norm[1].value = raw_url

\* a youtube URL with a shorts path, a tracking parameter and a v parameter
\* was normalized: the v parameter won and the rest is gone
C24_Witness ==
    /\ raw_url = <<"https://", "www.youtube.com", "/", "shorts", "/", "a",
                   "?", "si", "=", "a", "&", "v", "=", "+">>
    /\ Len(norm) >= 1
    /\ norm[1].value = Watch \o <<" ">>

\* ----------------------------------------------------------------- C25
\* a is b with some characters left out, the others in their order
RECURSIVE IsSubsequence(_, _)
IsSubsequence(a, b) ==
    IF a = <<>> THEN TRUE
    ELSE IF b = <<>> THEN FALSE
    ELSE IF Head(a) = Head(b) THEN IsSubsequence(Tail(a), Tail(b))
    ELSE IsSubsequence(a, Tail(b))

\* only letters, digits and allow-list characters, no whitespace outside
WellFormedName(t) ==
    /\ \A k \in DOMAIN t : t[k] \in Alnum \cup SAFE_FILENAME_CHARS
    /\ t # <<>> => (t[1] \notin Whitespace /\ t[Len(t)] \notin Whitespace)

\* C25: the name _safe_filename returns for a title is made of alphanumeric
\* and allow-list characters only, taken from the title in their order, has
\* no whitespace at either end and no path separator; a title that is
\* already of that form is returned unchanged, and sanitizing the name
\* again returns the name.
C25_SafeNames ==
    \A i \in Pair :
        /\ filenames[i] # <<>>
           => LET name == filenames[i][1]
              IN /\ WellFormedName(name)
                 /\ IsSubsequence(name, titles[i])
                 /\ \A k \in DOMAIN name : name[k] \notin {"/", "\\"}
                 /\ WellFormedName(titles[i]) => name = titles[i]
        /\ renamed[i] # <<>> => renamed[i] = filenames[i]

\* a title with a tab, a path separator and spaces around a letter was
\* sanitized to the letter, and the letter sanitized again
C25_Witness ==
    \E i \in Pair :
        /\ titles[i] \in {<<" ", "a">>, <<"a", " ">>, <<"/", "a">>, <<"\t", "a">>}
        /\ filenames[i] = << <<"a">> >>
        /\ renamed[i] = << <<"a">> >>

\* ----------------------------------------------------------------- C26
\* C26 as stated: two items of one run whose transfers are under way at the
\* same time never write the same destination path, whatever their titles.
C26_DistinctDestinations ==
    \A i, j \in Pair :
        (i # j /\ writing[i] /\ writing[j])
        => Destination(titles[i], filenames[i][1]) # Destination(titles[j], filenames[j][1])

\* ----------------------------------------------------------------- C27
\* C27 as stated: two different downloads that are running at the same time
\* (items of one playlist run, items of two runs into the same directory, a
\* playlist item and a background download) never write the same record id.
C27_DistinctRecordIds ==
    \A p, q \in tracked :
        (p # q /\ p.running /\ q.running) => p.uid # q.uid

\* ----------------------------------------------------------------- C28
\* C28 as stated: when a resolution is preferred and no video candidate of
\* the resolved item has exactly that resolution, the next step of the item
\* ends it in the no-match outcome: no candidate is fetched and neither an
\* attempt nor a sleep is added.
C28_NoMatchEndsItem ==
    [][\A i \in Slots :
         (/\ pc[i] = "select" /\ ~audio_only /\ resolution_preference # None
          /\ "progressive" \in DOMAIN streams[i]
          /\ FirstMatch(streams[i].progressive \o streams[i].adaptive_video,
                        resolution_preference) = NoStream
          /\ pc'[i] # pc[i])
         => /\ pc'[i] = "done"
            /\ result'[i].status = "no-stream"
            /\ stream'[i] = NoStream
            /\ attempts'[i] = attempts[i]
            /\ sleeps'[i] = sleeps[i]
      ]_vars

\* ----------------------------------------------------------------- C29
\* C29 as stated: the collector always takes the future that finished first
\* among those not yet collected, delivers its final callback and, if the
\* item succeeded, appends its path to the returned list.
C29_FirstFinishedFirstCollected ==
    [][\A i \in Slots :
         (pc[i] = "done" /\ pc'[i] = "collected")
         => /\ i = Head(completed)
            /\ per_item_callback => <<result[i].status, 4>> \in obs'[i].cbs
            /\ downloaded' = (IF result[i].status = "ok"
                              THEN Append(downloaded, result[i].out) ELSE downloaded)
      ]_vars

\* C29 as amended: the futures that were done when as_completed started are
\* collected before all others, in no particular order among themselves;
\* every other future is collected only when it is the one that finished
\* first among those not yet collected.  The final callback and the append
\* to the returned list happen at collection, so both follow this order and
\* not the playlist order.
C29_CollectedAsYielded ==
    [][\A i \in Slots :
         (pc[i] = "done" /\ pc'[i] = "collected")
         => /\ finished # {} => i \in finished
            /\ \/ i = Head(completed)
               \/ i \in finished /\ Head(completed) \in finished
            /\ per_item_callback => <<result[i].status, 4>> \in obs'[i].cbs
            /\ downloaded' = (IF result[i].status = "ok"
                              THEN Append(downloaded, result[i].out) ELSE downloaded)
      ]_vars

\* two workers: the second item succeeded and was collected while the first
\* is still being transferred, so its path is the first of the list
C29_Witness ==
    /\ concurrency = 2
    /\ mainPc = "collect"
    /\ pc[1] = "fetch" /\ pc[2] = "collected"
    /\ finished = {}
    /\ downloaded = <<PathOf(2)>>

\* ----------------------------------------------------------------- C30
\* C30: the k-th sleep of an item lasts backoff_factor * 2^(k-1); an item
\* that was not started has not slept; while an item sleeps it has slept as
\* often as it has made attempts (the sleep follows a failed attempt and
\* comes before the next), otherwise once less than it has made attempts;
\* so there is no sleep before the first attempt, none after a successful
\* attempt and none after the final failed attempt, and an item that ended
\* has slept once less than it has made attempts.
C30_BackoffSchedule ==
    \A i \in Slots :
        /\ \A k \in DOMAIN sleeps[i] : sleeps[i][k] = backoff_factor * Pow2(k - 1)
        /\ tries[i] = 0 => sleeps[i] = <<>>
        /\ tries[i] >= 1
           => Len(sleeps[i]) = (IF pc[i] = "sleep" THEN tries[i] ELSE tries[i] - 1)
        /\ pc[i] = "sleep" => (attempts[i] = tries[i] /\ attempts[i] <= max_retries)
        /\ Done(i) => Len(sleeps[i]) = tries[i] - 1
        /\ (Done(i) /\ IsError(result[i].status))
           => (attempts[i] = max_retries + 1 /\ Len(sleeps[i]) = max_retries)
        /\ (Done(i) /\ ~IsError(result[i].status)) => Len(sleeps[i]) = attempts[i]

\* an item failed four times with max_retries = 3: it slept 1.5 s, 3 s and
\* 6 s and not after the fourth failure
C30_Witness ==
    \E i \in Items :
        /\ max_retries = 3
        /\ Done(i) /\ IsError(result[i].status)
        /\ tries[i] = 4
        /\ sleeps[i] = <<15, 30, 60>>

\* C31: speed and ETA are attempt-scoped.  The reference time of a report
\* made in attempt k was taken in attempt k (not before the attempt was
\* entered), the elapsed time it uses is the time since that reference,
\* clamped to 1e-6 s, and so no more than the time spent in attempt k; the
\* speed is received / elapsed; the ETA is int((total - received) / speed)
\* when the speed is positive and 0 when the speed is 0 (received = 0); no
\* report runs into a division by zero.
C31_SpeedPerAttempt ==
    (meter.pc # "none" /\ meter.report # NoReport)
    => LET r == meter.report
           k == r.attempt
       IN /\ Len(meter.begun) >= k /\ Len(meter.entered) >= k
          /\ meter.begun[k] >= meter.entered[k]
          /\ k < Len(meter.entered) => meter.begun[k] <= meter.entered[k + 1]
          /\ r.elapsed = Max(r.now - meter.begun[k], Epsilon)
          /\ r.elapsed <= Max(r.now - meter.entered[k], Epsilon)
          /\ r.speed = [num |-> r.received * Second, den |-> r.elapsed]
          /\ r.speed.den > 0
          /\ ~r.raised
          /\ (r.received = 0) = (r.speed.num = 0)
          /\ r.speed.num = 0 => r.eta = 0
          /\ r.speed.num > 0
             => r.eta = ((r.total - r.received) * r.elapsed) \div (r.received * Second)

\* a report of the second attempt, two seconds after the item began and one
\* second after the attempt took its reference: half of the stream is there
\* and the ETA is one second, not two
C31_Witness ==
    /\ meter.pc = "transfer"
    /\ meter.report # NoReport
    /\ meter.report.attempt = 2
    /\ meter.begun[1] = 0
    /\ meter.begun[2] = Second
    /\ meter.report.now = 2 * Second
    /\ meter.report.received = 1
    /\ meter.report.eta = 1

\* C32 as stated: the first status an item is reported with is 'queued'.
\* The first invocation of per_item_callback for an item carries the status
\* 'queued', and the first record written for an item has the status
\* 'queued'.
C32_QueuedFirst ==
    [][\A i \in Slots :
          /\ (obs[i].cbs = {} /\ obs'[i].cbs # {})
             => \A c \in obs'[i].cbs : c[1] = "queued"
          /\ (obs[i].rec = NoRecord /\ obs'[i].rec # NoRecord)
             => obs'[i].rec.status = "queued"]_vars

\* C33: list_progress_files returns exactly the record files that are stored
\* in the directory at the time of the call: the file of the id when the path
\* exists, never the temporary file (of a write in progress or left by a
\* failed write), the empty list when the directory or the record is not
\* there; and the call leaves the directory entries and the files as they
\* are.
C33_ListsStoredRecords ==
    [][listed' # listed
       => /\ listed'[1].names = names
          /\ listed'[1].files = IF names[Path] # 0 THEN {Path} ELSE {}
          /\ TmpOf(Path) \notin listed'[1].files
          /\ (\A n \in FileNames : names[n] = 0) => listed'[1].files = {}
          /\ UNCHANGED <<initial, names, disk, writer, reader, seen>>]_vars

\* a listing made while the record is stored and a temporary file is there
\* too, left by a write whose cleanup failed
C33_Witness ==
    /\ listed # <<>>
    /\ listed[1].files = {Path}
    /\ listed[1].names[TmpOf(Path)] # 0
    /\ \E w \in Writers : writer[w].pc = "done" /\ writer[w].left
    /\ \A w \in Writers : writer[w].pc \in {"idle", "done"}

\* C34: download_fallback asks the primary backend first and each backend at
\* most once; download_with_ytdlp is called only after the primary path
\* raised (creating the YouTube object, picking the stream or transferring)
\* and only when yt-dlp is installed; a call whose primary path succeeded
\* returns the file of the primary backend without calling the fallback;
\* when the primary path raised and yt-dlp is not installed the call raises
\* the exception of the primary path; when the fallback was called the call
\* returns its file or raises its exception.
C34_PrimaryThenFallbackOnce ==
    single.pc # "none"
    => LET calls == single.calls
           fellBack == \E k \in DOMAIN calls : calls[k] = "download_with_ytdlp"
       IN /\ calls \in {<<>>, <<"YouTube">>, <<"YouTube", "download_video">>,
                        <<"YouTube", "download_with_ytdlp">>,
                        <<"YouTube", "download_video", "download_with_ytdlp">>}
          /\ calls = <<>> <=> single.pc = "resolve"
          /\ fellBack = (single.error # None /\ YTDLP_AVAILABLE)
          /\ single.pc = "ytdlp" => fellBack
          /\ single.pc = "returned"
             => single.ret = [raised |-> None,
                              out |-> IF single.error = None THEN PrimaryFile
                                      ELSE YtdlpFile]
          /\ single.pc = "raised"
             => /\ single.error # None
                /\ single.ret.out = None
                /\ single.ret.raised = IF YTDLP_AVAILABLE THEN YtdlpError
                                       ELSE single.error

\* without yt-dlp, a transfer of the primary backend that had reported
\* progress failed, and the call raised that failure
C34_Witness ==
    /\ single.pc = "raised"
    /\ ~YTDLP_AVAILABLE
    /\ single.calls = <<"YouTube", "download_video">>
    /\ single.reports = 1
    /\ single.ret.raised = "pytube:fetch"

\* C35: the records written for a background download are 'downloading'
\* records (none, one or several) followed by the terminal record, and
\* nothing but that terminal record after it: 'completed' with the file name
\* when the transfer succeeded, 'error' with the message when it failed.
\* When the thread has ended the stored record is that terminal record.
C35_DownloadingThenTerminal ==
    job.pc # "none"
    => LET w == job.writes
           terminal == {k \in DOMAIN w : w[k].status # "downloading"}
           expected == IF job.outcome = "ok" THEN CompletedRecord(YtdlpFile)
                       ELSE IF YTDLP_AVAILABLE THEN ErrorRecord(YtdlpError)
                       ELSE ErrorRecord("yt-dlp is not available")
       IN /\ \A k \in terminal : \A m \in k..Len(w) : w[m] = w[k]
          /\ \A k \in terminal : job.outcome # None /\ w[k] = expected
          /\ job.outcome = None => terminal = {}
          /\ job.pc \in {"final", "done"} => w # <<>> /\ w[Len(w)] = expected
          /\ job.pc = "done" <=> (job.outcome = "failed"
                                  \/ (job.outcome = "ok" /\ Len(w) >= 2
                                      /\ w[Len(w) - 1] = expected))

\* two 'downloading' records were written, the transfer failed and the
\* thread ended with the 'error' record stored
C35_Witness ==
    /\ job.pc = "done"
    /\ Len(job.writes) = 3
    /\ job.writes[1] = DownloadingRecord(1)
    /\ job.writes[2] = DownloadingRecord(2)
    /\ job.writes[3] = ErrorRecord(YtdlpError)

\* C36: when download_playlist returns, every video of the list was submitted
\* and collected, has a terminal outcome ('ok', a skip or an error), no call of
\* _download_one is still running or waiting, every future was yielded, the
\* final callback of every item was delivered, and the returned list holds
\* the path of every successful item once and nothing else.  Along the way an
\* item is submitted once (it never goes back to the queue), taken by a worker
\* once, and collected once, from the state in which its call has returned;
\* the list grows only by the path of the item collected in that step.
C36_ReturnsWhenAllCollected ==
    [][/\ mainPc' = "returned"
          => /\ futures' = Len(video_urls') /\ Len(video_urls') >= 1
             /\ \A i \in 1..Len(video_urls') :
                   /\ pc'[i] = "collected"
                   /\ ~result'[i].exc
                   /\ result'[i].status \in {"ok"} \cup SkipStatuses \cup ErrorStatuses
                   /\ per_item_callback' => <<result'[i].status, 4>> \in obs'[i].cbs
                   /\ Cardinality({k \in DOMAIN downloaded' :
                                      downloaded'[k] = result'[i].out})
                      = IF result'[i].status = "ok" THEN 1 ELSE 0
             /\ \A i \in Slots \ (1..Len(video_urls')) :
                   pc'[i] = "unsubmitted" /\ obs'[i] = NoObs
             /\ {i \in Slots : pc'[i] \in {"queued", "resolve", "select", "fetch",
                                           "fetch_ytdlp", "sleep", "done"}} = {}
             /\ finished' = {} /\ completed' = <<>>
             /\ Len(downloaded')
                = Cardinality({i \in 1..Len(video_urls') : result'[i].status = "ok"})
       /\ \A i \in Slots :
             /\ (pc'[i] = "queued" /\ pc[i] # "queued") => pc[i] = "unsubmitted"
             /\ (pc'[i] = "resolve" /\ pc[i] \notin {"queued", "sleep"}) => pc[i] = "resolve"
             /\ (pc[i] = "queued" /\ pc'[i] # "queued") => tries[i] = 0
             /\ pc[i] = "collected" => pc'[i] = "collected"
             /\ (pc'[i] = "collected" /\ pc[i] # "collected") => pc[i] = "done"
       /\ downloaded' # downloaded
          => \E i \in Items :
                /\ pc[i] = "done" /\ pc'[i] = "collected"
                /\ \A j \in Slots \ {i} : pc'[j] = "collected" => pc[j] = "collected"
                /\ downloaded' = Append(downloaded, result[i].out)
      ]_vars

\* a run with two workers returned: item 1 failed after its retry, item 2
\* succeeded, and the list holds the one path
C36_Witness ==
    /\ mainPc = "returned"
    /\ Len(video_urls) = 2
    /\ concurrency = 2
    /\ attempts[1] = 2 /\ IsError(result[1].status)
    /\ result[2].status = "ok"
    /\ downloaded = <<PathOf(2)>>

\* C37: observer isolation.  With a callback that raises on every invocation:
\* a step that invokes it for an item changes neither the attempt count nor
\* the sleeps of that item and nothing of any other item; the 'completed'
\* notification is followed in the same step by the return of 'ok', and on
\* the primary video path by the 'completed' record when records were asked
\* for; a 'downloading' notification of the primary transfer is followed by
\* its record; the final notification is followed by the collection of the
\* item (the path is appended if it succeeded) and the collector goes on;
\* no status is an error of the callback, the run raises only when the
\* enumeration failed, and a run that returns has delivered the final
\* notification of every item.
C37_ObserverIsolated ==
    [][(per_item_callback /\ callback_raises)
       => /\ \A i \in Slots :
                LET new == obs'[i].cbs \ obs[i].cbs
                IN /\ new # {}
                      => /\ attempts'[i] = attempts[i]
                         /\ sleeps'[i] = sleeps[i]
                         /\ \A j \in Slots \ {i} :
                               /\ pc'[j] = pc[j] /\ result'[j] = result[j]
                               /\ obs'[j] = obs[j] /\ attempts'[j] = attempts[j]
                   /\ <<"completed", 8>> \in new
                      => /\ pc'[i] = "done"
                         /\ result'[i].status = "ok"
                         /\ (progress_dir /\ pc[i] = "fetch" /\ ~audio_only)
                            => obs'[i].rec = [status |-> "completed",
                                              downloaded |-> last_received[i]]
                   /\ (<<"downloading", 8>> \in new /\ pc[i] = "fetch" /\ progress_dir)
                      => obs'[i].rec = [status |-> "downloading",
                                        downloaded |-> chunks'[i]]
                   /\ (\E c \in new : c[2] = 4)
                      => /\ pc'[i] = "collected"
                         /\ mainPc' = mainPc
                         /\ downloaded' = Collected(downloaded, result[i])
                   /\ result'[i].status # None
                      => result'[i].status \in {"ok"} \cup SkipStatuses \cup ErrorStatuses
          /\ mainPc' = "raised" => futures' = 0
          /\ mainPc' = "returned"
             => \A i \in 1..Len(video_urls') : <<result'[i].status, 4>> \in obs'[i].cbs
      ]_vars

\* with a callback that raises, a run of two videos has returned both paths,
\* item 1 after one retry; both records say 'completed'
C37_Witness ==
    /\ callback_raises /\ per_item_callback /\ progress_dir
    /\ mainPc = "returned"
    /\ Len(downloaded) = 2
    /\ attempts[1] = 1 /\ sleeps[1] = <<sleep_time(1)>>
    /\ \A i \in {1, 2} :
          /\ obs[i].cbs = {<<"downloading", 8>>, <<"completed", 8>>, <<"ok", 4>>}
          /\ obs[i].rec.status = "completed"

\* C38: persistence is opt-in.  In a run without progress_dir no item ever
\* has a record.  In a run with progress_dir a record is written only by a
\* step of the primary transfer of the item it belongs to, only into that
\* item's record and into no other item's, and the ids of two items of the
\* run, each derived from the index of the item, differ.
C38_RecordsOnlyOnRequest ==
    [][/\ ~progress_dir' => \A i \in Slots : obs'[i].rec = NoRecord
       /\ \A i \in Slots :
             obs'[i].rec # obs[i].rec
             => /\ progress_dir
                /\ pc[i] = "fetch"
                /\ i \in Items
                /\ obs'[i].rec.status \in {"downloading", "completed"}
                /\ \A j \in Slots \ {i} : obs'[j].rec = obs[j].rec
       /\ \A i, j \in Items : i # j => playlist_id(i) # playlist_id(j)
      ]_vars

\* a run without progress_dir: item 1 was transferred by the primary backend
\* with a progress report and collected as 'ok', item 2 is being transferred
\* and has reported progress, and neither has a record
C38_Witness ==
    /\ ~progress_dir /\ per_item_callback /\ ~audio_only
    /\ Len(video_urls) = 2
    /\ pc[1] = "collected" /\ result[1].status = "ok"
    /\ obs[1].cbs = {<<"downloading", 8>>, <<"completed", 8>>, <<"ok", 4>>}
    /\ pc[2] = "fetch" /\ chunks[2] = 1
    /\ obs[1].rec = NoRecord /\ obs[2].rec = NoRecord

\* C39: termination.  Every run in which the threads keep being scheduled and
\* the backend calls and sleeps end reaches the end of download_playlist: it
\* returns the list, or, when the enumeration failed or found nothing, raises
\* before anything was submitted.
C39_Terminates ==
    <>(mainPc = "returned" \/ (mainPc = "raised" /\ futures = 0))

\* a run on one worker has returned: item 1 used up its two retries while
\* item 2 waited in the queue, then item 2 was downloaded
C39_Witness ==
    /\ mainPc = "returned"
    /\ concurrency = 1
    /\ max_retries = 2
    /\ Len(video_urls) = 2
    /\ Len(sleeps[1]) = 2 /\ attempts[1] = 3 /\ IsError(result[1].status)
    /\ downloaded = <<PathOf(2)>>

====
